---- MODULE Spec2Model ----
(***************************************************************************)
(* Request dispatch of the vira framework: Route (pattern compiler,        *)
(* matching, parameter binding), APIRouter (specificity ordering, lookup,  *)
(* 404/405 generation) and MiddlewareChain (onion composition).            *)
(*                                                                         *)
(* Python strings are modelled as sequences of one-character strings, so   *)
(* that rstrip, split, find, count and the compiled regular expressions    *)
(* are computed character by character as the code computes them.         *)
(***************************************************************************)
EXTENDS Integers, Sequences, FiniteSets, TLC

(***************************************************************************)
(* Bounds of the model.                                                    *)
(***************************************************************************)
MaxRoutes == 2

MaxMiddleware == 3

(***************************************************************************)
(* Python values.                                                          *)
(***************************************************************************)
None == [py |-> "None"]

EmptyDict == << >>

\* dict lookup on an insertion-ordered dict modelled as a sequence of
\* <<key, value>> pairs
DictKeys(d) == {d[i][1] : i \in 1..Len(d)}

DictHas(d, k) == \E i \in 1..Len(d) : d[i][1] = k

DictGet(d, k) == d[CHOOSE i \in 1..Len(d) : d[i][1] = k][2]

\* d[k] = v: an existing key keeps its position, a new key is appended
DictSet(d, k, v) ==
    IF DictHas(d, k)
    THEN [i \in 1..Len(d) |-> IF d[i][1] = k THEN <<k, v>> ELSE d[i]]
    ELSE Append(d, <<k, v>>)

(***************************************************************************)
(* str methods used by the router, on sequences of characters.             *)
(***************************************************************************)
Slash == "/"

RECURSIVE rstrip(_, _)
rstrip(s, c) ==
    IF Len(s) > 0 /\ s[Len(s)] = c THEN rstrip(SubSeq(s, 1, Len(s) - 1), c) ELSE s

RECURSIVE lstrip(_, _)
lstrip(s, c) ==
    IF Len(s) > 0 /\ s[1] = c THEN lstrip(Tail(s), c) ELSE s

strip(s, c) == lstrip(rstrip(s, c), c)

\* s.count(c)
count(s, c) == Cardinality({i \in 1..Len(s) : s[i] = c})

\* s.find(c, start) with 1-based positions; 0 stands for Python's -1
find(s, c, start) ==
    IF \E i \in start..Len(s) : s[i] = c
    THEN CHOOSE i \in start..Len(s) : s[i] = c /\ \A j \in start..(i - 1) : s[j] # c
    ELSE 0

\* s.split(c): the pieces between the occurrences of c (never an empty list)
RECURSIVE split(_, _)
split(s, c) ==
    LET p == find(s, c, 1)
    IN  IF p = 0 THEN <<s>>
        ELSE <<SubSeq(s, 1, p - 1)>> \o split(SubSeq(s, p + 1, Len(s)), c)

startswith(s, c) == Len(s) > 0 /\ s[1] = c

\* s or "/"  (an empty string is falsy)
OrRoot(s) == IF s = << >> THEN <<Slash>> ELSE s

Digits == {"0", "1", "2", "3", "4", "5", "6", "7", "8", "9"}

HexDigits == Digits \cup {"a", "b", "c", "d", "e", "f"}

DigitVal(c) ==
    CASE c = "0" -> 0 [] c = "1" -> 1 [] c = "2" -> 2 [] c = "3" -> 3
      [] c = "4" -> 4 [] c = "5" -> 5 [] c = "6" -> 6 [] c = "7" -> 7
      [] c = "8" -> 8 [] c = "9" -> 9

AllIn(s, S) == \A i \in 1..Len(s) : s[i] \in S

(***************************************************************************)
(* Built-in conversions.  Each returns [ok, value]; ok = FALSE stands for  *)
(* the ValueError the built-in raises.                                     *)
(***************************************************************************)
RECURSIVE DecimalValue(_)
DecimalValue(s) ==
    IF s = << >> THEN 0
    ELSE 10 * DecimalValue(SubSeq(s, 1, Len(s) - 1)) + DigitVal(s[Len(s)])

\* int(text): an optional sign followed by decimal digits
py_int(s) ==
    LET signed == Len(s) > 0 /\ s[1] \in {"+", "-"}
        body == IF signed THEN Tail(s) ELSE s
    IN  IF Len(body) > 0 /\ AllIn(body, Digits)
        THEN [ok |-> TRUE,
              value |-> IF signed /\ s[1] = "-" THEN 0 - DecimalValue(body)
                        ELSE DecimalValue(body)]
        ELSE [ok |-> FALSE, value |-> None]

\* float(text) for plain decimal notation: the value is kept as
\* <<"float", integer part, fraction digits>>
py_float(s) ==
    LET signed == Len(s) > 0 /\ s[1] \in {"+", "-"}
        body == IF signed THEN Tail(s) ELSE s
        dot == find(body, ".", 1)
        ip == IF dot = 0 THEN body ELSE SubSeq(body, 1, dot - 1)
        fp == IF dot = 0 THEN << >> ELSE SubSeq(body, dot + 1, Len(body))
        neg == signed /\ s[1] = "-"
    IN  IF AllIn(ip, Digits) /\ AllIn(fp, Digits) /\ Len(ip) + Len(fp) > 0
        THEN [ok |-> TRUE,
              value |-> <<"float",
                          IF neg THEN 0 - DecimalValue(ip) ELSE DecimalValue(ip),
                          rstrip(fp, "0")>>]
        ELSE [ok |-> FALSE, value |-> None]

\* canonical 8-4-4-4-12 form of a UUID
IsCanonicalUuid(s) ==
    /\ Len(s) = 36
    /\ \A i \in 1..36 :
          IF i \in {9, 14, 19, 24} THEN s[i] = "-" ELSE s[i] \in HexDigits

\* uuid.UUID(text): 32 hexadecimal digits once the hyphens are removed
py_uuid(s) ==
    LET hex == SelectSeq(s, LAMBDA c : c # "-")
    IN  IF Len(hex) = 32 /\ AllIn(hex, HexDigits \cup {"A", "B", "C", "D", "E", "F"})
        THEN [ok |-> TRUE, value |-> <<"UUID", hex>>]
        ELSE [ok |-> FALSE, value |-> None]

(***************************************************************************)
(* Exceptions and return values.  An operation that can raise returns a    *)
(* record with ok = FALSE and the exception it raises.                     *)
(***************************************************************************)
Exc(type, msg) == [type |-> type, msg |-> msg]

Raise(type, msg) == [ok |-> FALSE, exc |-> Exc(type, msg)]

\* repr of a parameter type as it appears in a formatted message
Repr(t) == IF t \in {"multipath", "empty"} THEN <<t>> ELSE <<"<class '", t, "'>">>

(***************************************************************************)
(* Route: the pattern compiler.                                            *)
(***************************************************************************)
RE_INT == "(\\d+)"

RE_FLOAT == "(\\d+(?:\\.\\d+)?)"

RE_UUID == "([0-9a-f]{8}-[0-9a-f]{4}-[0-9a-f]{4}-[0-9a-f]{4}-[0-9a-f]{12})"

RE_MULTIPATH == "(.*)"

RE_STR == "([^/]+)"

\* a piece of the compiled regular expression: re.escape(text) or a group
Literal(text) == [lit |-> TRUE, text |-> text]

Group(re) == [lit |-> FALSE, re |-> re]

TypeNames ==
    << <<"s", "t", "r">>, <<"i", "n", "t">>, <<"f", "l", "o", "a", "t">>,
       <<"u", "u", "i", "d">>, <<"m", "u", "l", "t", "i", "p", "a", "t", "h">> >>

TypeValues == <<"str", "int", "float", "uuid.UUID", "multipath">>

\* mutant: a type name that is not in the table is taken as str
UnknownTypeIsStr(type_name) ==
    IF \E i \in 1..Len(TypeNames) : TypeNames[i] = type_name
    THEN [ok |-> TRUE,
          value |-> TypeValues[CHOOSE i \in 1..Len(TypeNames) : TypeNames[i] = type_name]]
    ELSE [ok |-> TRUE, value |-> "str"]

_get_param_type(type_name) ==
    IF \E i \in 1..Len(TypeNames) : TypeNames[i] = type_name
    THEN [ok |-> TRUE,
          value |-> TypeValues[CHOOSE i \in 1..Len(TypeNames) : TypeNames[i] = type_name]]
    ELSE Raise("ValueError", <<"Unsupported parameter type: ", type_name>>)

_get_regex_for_parameter_type(param_type) ==
    IF param_type = "int" THEN RE_INT
    ELSE IF param_type = "float" THEN RE_FLOAT
    ELSE IF param_type = "uuid.UUID" THEN RE_UUID
    ELSE IF param_type = "multipath" THEN RE_MULTIPATH
    ELSE RE_STR

_parse_parameter_specification(param_spec) ==
    LET colon == find(param_spec, ":", 1)
    IN  IF colon # 0
        THEN LET t == _get_param_type(SubSeq(param_spec, colon + 1, Len(param_spec)))
             IN  IF t.ok
                 THEN [ok |-> TRUE, name |-> SubSeq(param_spec, 1, colon - 1),
                       type |-> t.value]
                 ELSE t
        ELSE [ok |-> TRUE, name |-> param_spec, type |-> "str"]

\* index is 1-based here; the message carries Python's 0-based position
_process_path_parameter(pattern, index, regex_parts, param_types) ==
    LET end == find(pattern, "}", index)
    IN  IF end = 0
        THEN Raise("ValueError", <<"Unclosed parameter at position ", index - 1>>)
        ELSE LET spec == _parse_parameter_specification(SubSeq(pattern, index + 1, end - 1))
             IN  IF ~spec.ok THEN spec
                 ELSE [ok |-> TRUE,
                       index |-> end + 1,
                       regex_parts |->
                           Append(regex_parts,
                                  Group(_get_regex_for_parameter_type(spec.type))),
                       param_types |-> DictSet(param_types, spec.name, spec.type)]

_process_literal_segment(pattern, index, regex_parts, param_types) ==
    LET next_param_index == find(pattern, "{", index)
        end_index == IF next_param_index = 0 THEN Len(pattern) + 1 ELSE next_param_index
    IN  [ok |-> TRUE,
         index |-> end_index,
         regex_parts |-> Append(regex_parts, Literal(SubSeq(pattern, index, end_index - 1))),
         param_types |-> param_types]

_process_path_segment(path_segment, index, regex_parts, param_types) ==
    IF path_segment[index] = "{"
    THEN _process_path_parameter(path_segment, index, regex_parts, param_types)
    ELSE _process_literal_segment(path_segment, index, regex_parts, param_types)

RECURSIVE CompileLoop(_, _, _, _)
CompileLoop(path, i, regex_parts, param_types) ==
    IF i > Len(path)
    THEN [ok |-> TRUE, regex |-> regex_parts, param_types |-> param_types]
    ELSE LET Continue(r) ==
                 IF ~r.ok THEN r
                 ELSE CompileLoop(path, r.index, r.regex_parts, r.param_types)
         IN  Continue(_process_path_segment(path, i, regex_parts, param_types))

_compile_route_pattern(path) ==
    IF \E i \in 1..Len(path) : path[i] = "*"
    THEN Raise("ValueError",
               <<"Wildcard patterns (*/**) are no longer supported. Use multipath parameters instead: {name:multipath}">>)
    ELSE CompileLoop(path, 1, << >>, EmptyDict)

_count_path_segments(path) ==
    LET clean_path == lstrip(path, Slash)
    IN  IF clean_path = << >> THEN 1 ELSE count(clean_path, Slash) + 1

(***************************************************************************)
(* re.Pattern.match on "^" + parts + "$".  GroupAccepts says which texts   *)
(* a capturing group can consume; Match backtracks as the regex engine     *)
(* does, every group being greedy (longest text first).                    *)
(***************************************************************************)
GroupAccepts(re, t) ==
    IF re = RE_INT THEN Len(t) > 0 /\ AllIn(t, Digits)
    ELSE IF re = RE_FLOAT
         THEN LET dot == find(t, ".", 1)
              IN  IF dot = 0 THEN Len(t) > 0 /\ AllIn(t, Digits)
                  ELSE /\ dot > 1 /\ dot < Len(t)
                       /\ AllIn(SubSeq(t, 1, dot - 1), Digits)
                       /\ AllIn(SubSeq(t, dot + 1, Len(t)), Digits)
    ELSE IF re = RE_UUID THEN IsCanonicalUuid(t)
    ELSE IF re = RE_MULTIPATH THEN TRUE
    ELSE Len(t) > 0 /\ \A i \in 1..Len(t) : t[i] # Slash

NoMatch == [ok |-> FALSE, groups |-> << >>]

RECURSIVE Match(_, _, _, _)
Match(parts, k, s, pos) ==
    IF k > Len(parts)
    THEN IF pos = Len(s) + 1 THEN [ok |-> TRUE, groups |-> << >>] ELSE NoMatch
    ELSE IF parts[k].lit
    THEN LET n == Len(parts[k].text)
         IN  IF pos + n - 1 <= Len(s) /\ SubSeq(s, pos, pos + n - 1) = parts[k].text
             THEN Match(parts, k + 1, s, pos + n)
             ELSE NoMatch
    ELSE LET lens == {n \in 0..(Len(s) - pos + 1) :
                         /\ GroupAccepts(parts[k].re, SubSeq(s, pos, pos + n - 1))
                         /\ Match(parts, k + 1, s, pos + n).ok}
         IN  IF lens = {} THEN NoMatch
             ELSE LET n == CHOOSE m \in lens : \A l \in lens : l <= m
                      rest == Match(parts, k + 1, s, pos + n)
                  IN  [ok |-> TRUE,
                       groups |-> <<SubSeq(s, pos, pos + n - 1)>> \o rest.groups]

\* mutant: the pattern is compiled without its closing "$", so that a
\* prefix of the path is enough
RECURSIVE MatchPrefix(_, _, _, _)
MatchPrefix(parts, k, s, pos) ==
    IF k > Len(parts) THEN [ok |-> TRUE, groups |-> << >>]
    ELSE IF parts[k].lit
    THEN LET n == Len(parts[k].text)
         IN  IF pos + n - 1 <= Len(s) /\ SubSeq(s, pos, pos + n - 1) = parts[k].text
             THEN MatchPrefix(parts, k + 1, s, pos + n)
             ELSE NoMatch
    ELSE LET lens == {n \in 0..(Len(s) - pos + 1) :
                         /\ GroupAccepts(parts[k].re, SubSeq(s, pos, pos + n - 1))
                         /\ MatchPrefix(parts, k + 1, s, pos + n).ok}
             Longest(n) ==
                 [ok |-> TRUE,
                  groups |-> <<SubSeq(s, pos, pos + n - 1)>>
                             \o MatchPrefix(parts, k + 1, s, pos + n).groups]
         IN  IF lens = {} THEN NoMatch
             ELSE Longest(CHOOSE m \in lens : \A l \in lens : l <= m)

Unanchored(route_regex, path) == MatchPrefix(route_regex, 1, path, 1)

regex_match(route_regex, path) == Match(route_regex, 1, path, 1)

(***************************************************************************)
(* Handlers.  inspect.signature(handler) is a sequence of parameters, each *)
(* with its name, its annotation ("empty" when there is none) and whether  *)
(* it has a default value.                                                 *)
(***************************************************************************)
Param(name, annotation, has_default) ==
    [name |-> name, annotation |-> annotation, has_default |-> has_default]

N_request == <<"r", "e", "q", "u", "e", "s", "t">>

N_name == <<"n", "a", "m", "e">>

N_id == <<"i", "d">>

N_p == <<"p">>

N_q == <<"q">>

N_limit == <<"l", "i", "m", "i", "t">>

N_page == <<"p", "a", "g", "e">>

Signature(handler) ==
    CASE handler = "health_check" -> <<Param(N_request, "Request", FALSE)>>
      [] handler = "general_api" ->
            <<Param(N_request, "Request", FALSE), Param(N_name, "str", FALSE)>>
      [] handler = "get_item" ->
            <<Param(N_request, "Request", FALSE), Param(N_id, "int", FALSE)>>
      [] handler = "get_item_str" ->
            <<Param(N_request, "Request", FALSE), Param(N_id, "str", FALSE)>>
      [] handler = "get_any" -> <<Param(N_id, "empty", FALSE)>>
      [] handler = "serve_file" ->
            <<Param(N_request, "Request", FALSE), Param(N_p, "empty", FALSE)>>
      [] handler = "get_user" ->
            <<Param(N_request, "Request", FALSE), Param(N_id, "int", FALSE)>>
      [] handler = "get_user_by_name" ->
            <<Param(N_request, "Request", FALSE), Param(N_name, "str", FALSE)>>
      [] handler = "search" ->
            <<Param(N_request, "Request", FALSE), Param(N_q, "Optional[str]", TRUE),
              Param(N_limit, "int", TRUE)>>
      [] handler = "list_items" ->
            <<Param(N_request, "Request", FALSE), Param(N_page, "int", FALSE)>>
      [] handler = "lookup" ->
            <<Param(N_request, "Request", FALSE), Param(N_q, "Optional[str]", FALSE)>>

SigNames(sig) == [i \in 1..Len(sig) |-> sig[i].name]

SigParam(sig, name) == sig[CHOOSE i \in 1..Len(sig) : sig[i].name = name]

(***************************************************************************)
(* Route.__init__ and the validation it runs.                              *)
(***************************************************************************)
ValidMethods == {"GET", "POST", "PUT", "DELETE", "PATCH", "HEAD", "OPTIONS"}

\* mutant: no method name is reported as invalid
AnyMethodName(methods) == {}

_invalid_http_methods(methods) == methods \ ValidMethods

\* the annotations accepted for each path parameter type
expected_types(path_param_type) ==
    IF path_param_type \in {"int", "float", "uuid.UUID", "str"} THEN {path_param_type}
    ELSE IF path_param_type = "multipath" THEN {"str"}
    ELSE {}

\* handler_path_params: the parameters that are not Request-annotated and
\* are named like a path parameter of the pattern
HandlerPathParams(sig, param_types) ==
    {sig[i].name : i \in {j \in 1..Len(sig) :
                             /\ sig[j].annotation # "Request"
                             /\ DictHas(param_types, sig[j].name)}}

RequestParams(sig) ==
    SelectSeq(SigNames(sig), LAMBDA n : SigParam(sig, n).annotation = "Request")

\* mutant: a pattern parameter without a handler parameter is let through
ExistenceUnchecked(path, param_types, handler_path_params) == [ok |-> TRUE]

_validate_parameter_existence(path, param_types, handler_path_params) ==
    LET path_params == DictKeys(param_types)
        missing_in_handler == path_params \ handler_path_params
        missing_in_route == handler_path_params \ path_params
    IN  IF missing_in_handler # {}
        THEN Raise("ValueError",
                   <<"Route pattern '", path, "' defines path parameters ",
                     missing_in_handler,
                     " but handler function does not have corresponding parameters. ",
                     "Handler path parameters: ", handler_path_params>>)
        ELSE IF missing_in_route # {}
        THEN Raise("ValueError",
                   <<"Handler function expects path parameters ", missing_in_route,
                     " but route pattern '", path, "' only defines ", path_params>>)
        ELSE [ok |-> TRUE]

\* mutant: the annotations are not compared with the pattern's types
TypesUnchecked(sig, param_types, expected_path_params) == [ok |-> TRUE]

\* the loop runs over expected_path_params; the first mismatch raises
_validate_parameter_types(sig, param_types, expected_path_params) ==
    LET bad == {n \in expected_path_params :
                   /\ SigParam(sig, n).annotation # "empty"
                   /\ SigParam(sig, n).annotation \notin expected_types(DictGet(param_types, n))}
    IN  IF bad = {} THEN [ok |-> TRUE]
        ELSE LET n == CHOOSE x \in bad : TRUE
             IN  Raise("ValueError",
                       <<"Parameter '", n, "' type mismatch: route expects ">>
                       \o Repr(DictGet(param_types, n))
                       \o <<" but handler annotated as ">>
                       \o Repr(SigParam(sig, n).annotation))

_validate_parameter_consistency(sig, path, param_types, handler_path_params) ==
    LET e == _validate_parameter_existence(path, param_types, handler_path_params)
    IN  IF ~e.ok THEN e
        ELSE _validate_parameter_types(sig, param_types,
                                       handler_path_params \cap DictKeys(param_types))

_inspect_handler_signature(handler, path, param_types) ==
    LET sig == Signature(handler)
        handler_path_params == HandlerPathParams(sig, param_types)
        v == _validate_parameter_consistency(sig, path, param_types, handler_path_params)
    IN  IF ~v.ok THEN v
        ELSE [ok |-> TRUE,
              handler_params |-> SigNames(sig),
              request_params |-> RequestParams(sig),
              handler_path_params |-> handler_path_params,
              expected_path_params |-> handler_path_params \cap DictKeys(param_types)]

\* methods = {} stands for both None and an empty set: "methods or {'GET'}"
Route(path, handler, methods, priority) ==
    LET self_path == OrRoot(rstrip(path, Slash))
        self_methods == IF methods = {} THEN {"GET"} ELSE methods
        invalid_methods == _invalid_http_methods(self_methods)
        Built(compiled, inspected) ==
            IF ~inspected.ok THEN inspected
            ELSE [ok |-> TRUE,
                  route |->
                      [path |-> self_path,
                       handler |-> handler,
                       methods |-> self_methods,
                       priority |-> priority,
                       route_regex |-> compiled.regex,
                       param_types |-> compiled.param_types,
                       segment_count |-> _count_path_segments(self_path),
                       has_multipath_parameter |->
                           \E i \in 1..Len(compiled.param_types) :
                               compiled.param_types[i][2] = "multipath",
                       handler_params |-> inspected.handler_params,
                       request_params |-> inspected.request_params,
                       handler_path_params |-> inspected.handler_path_params,
                       expected_path_params |-> inspected.expected_path_params]]
        Inspect(compiled) ==
            IF ~compiled.ok THEN compiled
            ELSE Built(compiled,
                       _inspect_handler_signature(handler, self_path, compiled.param_types))
    IN  IF invalid_methods # {}
        THEN Raise("ValueError", <<"Invalid HTTP methods: ", invalid_methods>>)
        ELSE Inspect(_compile_route_pattern(self_path))

(***************************************************************************)
(* Route.matches.                                                          *)
(***************************************************************************)
\* conversion of one capture by the declared type of its parameter
ConvertCapture(param_type, raw_value) ==
    IF param_type = "int" THEN py_int(raw_value)
    ELSE IF param_type = "float" THEN py_float(raw_value)
    ELSE IF param_type = "uuid.UUID" THEN py_uuid(raw_value)
    ELSE [ok |-> TRUE, value |-> raw_value]

NoRouteMatch == [matches |-> FALSE, path_params |-> EmptyDict]

_extract_path_parameters(route, groups) ==
    LET conv == [i \in 1..Len(route.param_types) |->
                    ConvertCapture(route.param_types[i][2], groups[i])]
    IN  IF \E i \in 1..Len(conv) : ~conv[i].ok
        THEN NoRouteMatch
        ELSE [matches |-> TRUE,
              path_params |-> [i \in 1..Len(conv) |->
                                  <<route.param_types[i][1], conv[i].value>>]]

\* str.upper on the method names of the requests
upper(method) ==
    CASE method = "get" -> "GET"
      [] method = "post" -> "POST"
      [] method = "delete" -> "DELETE"
      [] method = "trace" -> "TRACE"
      [] OTHER -> method

\* mutant: the path is given to the regular expression as it came
MatchesRawOnly(route, path, method) ==
    LET request_segment_count == _count_path_segments(path)
        segment_match ==
            \/ request_segment_count = route.segment_count
            \/ /\ request_segment_count > route.segment_count
               /\ route.has_multipath_parameter
        Try(raw) ==
            IF raw.ok THEN _extract_path_parameters(route, raw.groups) ELSE NoRouteMatch
    IN  IF upper(method) \notin route.methods THEN NoRouteMatch
        ELSE IF ~segment_match THEN NoRouteMatch
        ELSE Try(regex_match(route.route_regex, path))

\* mutant: only the normalized path is given to the regular expression
MatchesNormalizedOnly(route, path, method) ==
    LET normalized_path == OrRoot(rstrip(path, Slash))
        segment_match ==
            \/ _count_path_segments(path) = route.segment_count
            \/ _count_path_segments(normalized_path) = route.segment_count
            \/ /\ _count_path_segments(path) > route.segment_count
               /\ route.has_multipath_parameter
        Normalized(norm) ==
            IF ~norm.ok THEN NoRouteMatch
            ELSE _extract_path_parameters(route, norm.groups)
    IN  IF upper(method) \notin route.methods THEN NoRouteMatch
        ELSE IF ~segment_match THEN NoRouteMatch
        ELSE Normalized(regex_match(route.route_regex, normalized_path))

\* Route.matches: the method is compared in upper case (method.upper())
matches(route, path, method) ==
    LET request_segment_count == _count_path_segments(path)
        normalized_path == OrRoot(rstrip(path, Slash))
        normalized_request_segments == _count_path_segments(normalized_path)
        segment_match ==
            \/ request_segment_count = route.segment_count
            \/ normalized_request_segments = route.segment_count
            \/ /\ request_segment_count > route.segment_count
               /\ route.has_multipath_parameter
        Normalized(norm) ==
            IF ~norm.ok THEN NoRouteMatch
            ELSE _extract_path_parameters(route, norm.groups)
        Try(raw) ==
            IF route.has_multipath_parameter /\ raw.ok
            THEN _extract_path_parameters(route, raw.groups)
            ELSE Normalized(regex_match(route.route_regex, normalized_path))
    IN  IF upper(method) \notin route.methods THEN NoRouteMatch
        ELSE IF ~segment_match THEN NoRouteMatch
        ELSE Try(regex_match(route.route_regex, path))

(***************************************************************************)
(* Route.handle: parameter binding and the call of the handler.            *)
(***************************************************************************)
_is_optional_type(annotation) ==
    annotation \in {"Optional[str]", "Optional[int]", "Optional[float]", "Optional[bool]"}

_unwrap_type(annotation) ==
    CASE annotation = "Optional[str]" -> "str"
      [] annotation = "Optional[int]" -> "int"
      [] annotation = "Optional[float]" -> "float"
      [] annotation = "Optional[bool]" -> "bool"
      [] OTHER -> annotation

\* str.lower() of the few spellings of a boolean the model uses
BoolTrue == { <<"t", "r", "u", "e">>, <<"T", "r", "u", "e">>, <<"1">>, <<"t">>, <<"T">> }

BoolFalse == { <<"f", "a", "l", "s", "e">>, <<"F", "a", "l", "s", "e">>, <<"0">>, <<"f">>, <<"F">> }

_convert_value(value, target_type) ==
    IF target_type = "str" THEN [ok |-> TRUE, value |-> value]
    ELSE IF target_type = "int" THEN py_int(value)
    ELSE IF target_type = "float" THEN py_float(value)
    ELSE IF target_type = "uuid.UUID" THEN py_uuid(value)
    ELSE IF target_type = "bool"
         THEN IF value \in BoolTrue THEN [ok |-> TRUE, value |-> TRUE]
              ELSE IF value \in BoolFalse THEN [ok |-> TRUE, value |-> FALSE]
              ELSE [ok |-> FALSE, value |-> None]
    ELSE [ok |-> FALSE, value |-> None]

\* mutant: a path parameter whose name is also a key of the query string is
\* left to the query binding
RECURSIVE QueryBeforePath(_, _, _, _)
QueryBeforePath(sig, i, request, kwargs) ==
    IF i > Len(sig) THEN kwargs
    ELSE IF sig[i].annotation = "Request"
    THEN QueryBeforePath(sig, i + 1, request, DictSet(kwargs, sig[i].name, "<Request>"))
    ELSE IF /\ DictHas(request.path_params, sig[i].name)
            /\ ~DictHas(request.query_params, sig[i].name)
    THEN QueryBeforePath(sig, i + 1, request,
                         DictSet(kwargs, sig[i].name,
                                 DictGet(request.path_params, sig[i].name)))
    ELSE QueryBeforePath(sig, i + 1, request, kwargs)

\* first loop of handle: the Request object and the path parameters
RECURSIVE BindInjected(_, _, _, _)
BindInjected(sig, i, request, kwargs) ==
    IF i > Len(sig) THEN kwargs
    ELSE IF sig[i].annotation = "Request"
    THEN BindInjected(sig, i + 1, request, DictSet(kwargs, sig[i].name, "<Request>"))
    ELSE IF DictHas(request.path_params, sig[i].name)
    THEN BindInjected(sig, i + 1, request,
                      DictSet(kwargs, sig[i].name, DictGet(request.path_params, sig[i].name)))
    ELSE BindInjected(sig, i + 1, request, kwargs)

\* mutant: a value that does not convert is dropped when the parameter has
\* a default, which the handler then uses
RECURSIVE DefaultOnFailure(_, _, _, _)
DefaultOnFailure(sig, i, request, kwargs) ==
    IF i > Len(sig) THEN [ok |-> TRUE, kwargs |-> kwargs]
    ELSE IF DictHas(kwargs, sig[i].name) THEN DefaultOnFailure(sig, i + 1, request, kwargs)
    ELSE IF sig[i].annotation = "empty" THEN DefaultOnFailure(sig, i + 1, request, kwargs)
    ELSE IF DictHas(request.query_params, sig[i].name)
    THEN LET c == _convert_value(DictGet(request.query_params, sig[i].name),
                                 _unwrap_type(sig[i].annotation))
         IN  IF c.ok
             THEN DefaultOnFailure(sig, i + 1, request, DictSet(kwargs, sig[i].name, c.value))
             ELSE IF sig[i].has_default
             THEN DefaultOnFailure(sig, i + 1, request, kwargs)
             ELSE Raise("TypeError",
                        <<"Invalid type for query parameter '", sig[i].name, "'.">>)
    ELSE IF _is_optional_type(sig[i].annotation) \/ sig[i].has_default
    THEN DefaultOnFailure(sig, i + 1, request, kwargs)
    ELSE Raise("ValueError", <<"Required query parameter '", sig[i].name, "' is missing.">>)

\* second loop of handle: the query parameters; the first failure raises
RECURSIVE BindQuery(_, _, _, _)
BindQuery(sig, i, request, kwargs) ==
    IF i > Len(sig) THEN [ok |-> TRUE, kwargs |-> kwargs]
    ELSE IF DictHas(kwargs, sig[i].name) THEN BindQuery(sig, i + 1, request, kwargs)
    ELSE IF sig[i].annotation = "empty" THEN BindQuery(sig, i + 1, request, kwargs)
    ELSE IF DictHas(request.query_params, sig[i].name)
    THEN LET c == _convert_value(DictGet(request.query_params, sig[i].name),
                                 _unwrap_type(sig[i].annotation))
         IN  IF c.ok
             THEN BindQuery(sig, i + 1, request, DictSet(kwargs, sig[i].name, c.value))
             ELSE Raise("TypeError",
                        <<"Invalid type for query parameter '", sig[i].name, "'.">>)
    ELSE IF _is_optional_type(sig[i].annotation) \/ sig[i].has_default
    THEN BindQuery(sig, i + 1, request, kwargs)
    ELSE Raise("ValueError", <<"Required query parameter '", sig[i].name, "' is missing.">>)

Response(content, status_code, headers) ==
    [status_code |-> status_code, content |-> content, headers |-> headers]

\* the default values the handlers declare
Defaults(handler) ==
    IF handler = "search" THEN << <<N_q, None>>, <<N_limit, 10>> >> ELSE EmptyDict

\* the arguments the body sees: those passed, then the defaults of the
\* parameters that were not passed
Arguments(handler, kwargs) ==
    kwargs \o SelectSeq(Defaults(handler), LAMBDA d : ~DictHas(kwargs, d[1]))

\* the bodies of the handlers: each answers 200 with what it was given
HandlerBody(handler, kwargs) ==
    [ok |-> TRUE,
     response |-> Response(<<handler, Arguments(handler, kwargs)>>, 200, EmptyDict)]

\* self.handler(**kwargs): Python raises TypeError when a parameter that has
\* no default is left unbound
CallHandler(handler, kwargs) ==
    LET sig == Signature(handler)
        unbound == {i \in 1..Len(sig) : ~sig[i].has_default /\ ~DictHas(kwargs, sig[i].name)}
    IN  IF unbound # {}
        THEN Raise("TypeError",
                   <<"missing required argument: '",
                     sig[CHOOSE i \in unbound : \A j \in unbound : i <= j].name, "'">>)
        ELSE HandlerBody(handler, kwargs)

\* the response returned (ok) or the exception raised; called is the
\* sequence of handler invocations made (at most one)
handle(route, request) ==
    LET sig == Signature(route.handler)
        bound == BindQuery(sig, 1, request, BindInjected(sig, 1, request, EmptyDict))
    IN  IF ~bound.ok
        THEN [ok |-> FALSE, response |-> None, exc |-> bound.exc, called |-> << >>]
        ELSE LET r == CallHandler(route.handler, bound.kwargs)
             IN  IF r.ok
                 THEN [ok |-> TRUE, response |-> r.response, exc |-> None,
                       called |-> <<[handler |-> route.handler, kwargs |-> bound.kwargs]>>]
                 ELSE [ok |-> FALSE, response |-> None, exc |-> r.exc, called |-> << >>]

(***************************************************************************)
(* APIRouter.  A router is [prefix, routes, route_definition_order]; the   *)
(* Route objects hash by identity, modelled by the field oid.              *)
(***************************************************************************)
APIRouter(prefix) ==
    [prefix |-> rstrip(prefix, Slash), routes |-> << >>, route_definition_order |-> EmptyDict]

Obj(oid, route) ==
    [oid |-> oid,
     path |-> route.path,
     handler |-> route.handler,
     methods |-> route.methods,
     priority |-> route.priority,
     route_regex |-> route.route_regex,
     param_types |-> route.param_types,
     segment_count |-> route.segment_count,
     has_multipath_parameter |-> route.has_multipath_parameter,
     handler_params |-> route.handler_params,
     request_params |-> route.request_params,
     handler_path_params |-> route.handler_path_params,
     expected_path_params |-> route.expected_path_params]

\* lexicographic order of two tuples of the same length
RECURSIVE TupleLess(_, _)
TupleLess(a, b) ==
    IF a = << >> THEN FALSE
    ELSE IF a[1] # b[1] THEN a[1] < b[1]
    ELSE TupleLess(Tail(a), Tail(b))

\* mutant: the literal segments are left out of the sort key
SpecificityWithoutLiterals(self, route) ==
    LET segments == IF route.path = <<Slash>> THEN << << >> >>
                    ELSE split(strip(route.path, Slash), Slash)
        definition_order ==
            IF DictHas(self.route_definition_order, route.oid)
            THEN DictGet(self.route_definition_order, route.oid)
            ELSE 0
    IN  <<route.priority, Len(segments), 0 - definition_order>>

_calculate_route_specificity(self, route) ==
    LET segments == IF route.path = <<Slash>> THEN << << >> >>
                    ELSE split(strip(route.path, Slash), Slash)
        literal_segments ==
            Cardinality({i \in 1..Len(segments) : ~startswith(segments[i], "{")})
        total_segments == Len(segments)
        definition_order ==
            IF DictHas(self.route_definition_order, route.oid)
            THEN DictGet(self.route_definition_order, route.oid)
            ELSE 0
    IN  <<route.priority, literal_segments, total_segments, 0 - definition_order>>

\* mutant: the list is left in registration order
Unsorted(self, routes) == routes

\* list.sort(key=..., reverse=True): stable, greatest key first
RECURSIVE SortBySpecificity(_, _)
SortBySpecificity(self, routes) ==
    IF routes = << >> THEN << >>
    ELSE LET sorted == SortBySpecificity(self, SubSeq(routes, 1, Len(routes) - 1))
             x == routes[Len(routes)]
             kx == _calculate_route_specificity(self, x)
             \* x goes after every element whose key is not smaller than its own
             n == Cardinality({i \in 1..Len(sorted) :
                     ~TupleLess(_calculate_route_specificity(self, sorted[i]), kx)})
         IN  SubSeq(sorted, 1, n) \o <<x>> \o SubSeq(sorted, n + 1, Len(sorted))

add_route(self, path, handler, methods, priority) ==
    LET full_path == IF path # <<Slash>> THEN self.prefix \o path ELSE OrRoot(self.prefix)
        Register(made) ==
            IF ~made.ok THEN made
            ELSE LET route == Obj(Len(self.route_definition_order), made.route)
                     order == DictSet(self.route_definition_order, route.oid,
                                      Len(self.route_definition_order))
                     tracked == [self EXCEPT !.route_definition_order = order]
                 IN  [ok |-> TRUE,
                      route |-> route,
                      self |-> [tracked EXCEPT
                                   !.routes = SortBySpecificity(tracked,
                                                                Append(self.routes, route))]]
    IN  Register(Route(full_path, handler, methods, priority))

\* mutant: the included routes are appended and the list is not sorted again
RECURSIVE AppendOnly(_, _, _, _)
AppendOnly(self, routes, i, combined_prefix) ==
    IF i > Len(routes)
    THEN [ok |-> TRUE, exc |-> None, self |-> self]
    ELSE LET route == routes[i]
             new_path == IF combined_prefix # << >> THEN combined_prefix \o route.path
                         ELSE route.path
             Track(made) ==
                 IF ~made.ok THEN [ok |-> FALSE, exc |-> made.exc, self |-> self]
                 ELSE LET new_route == Obj(Len(self.route_definition_order), made.route)
                      IN  AppendOnly(
                              [self EXCEPT
                                  !.route_definition_order =
                                      DictSet(self.route_definition_order, new_route.oid,
                                              Len(self.route_definition_order)),
                                  !.routes = Append(self.routes, new_route)],
                              routes, i + 1, combined_prefix)
         IN  Track(Route(new_path, route.handler, route.methods, route.priority))

\* the loop of include_router: a Route that cannot be made raises out of the
\* loop, after the routes made before it were appended and before the sort
RECURSIVE IncludeLoop(_, _, _, _)
IncludeLoop(self, routes, i, combined_prefix) ==
    IF i > Len(routes)
    THEN [ok |-> TRUE, exc |-> None,
          self |-> [self EXCEPT !.routes = SortBySpecificity(self, self.routes)]]
    ELSE LET route == routes[i]
             new_path == IF combined_prefix # << >> THEN combined_prefix \o route.path
                         ELSE route.path
             Track(made) ==
                 IF ~made.ok THEN [ok |-> FALSE, exc |-> made.exc, self |-> self]
                 ELSE LET new_route == Obj(Len(self.route_definition_order), made.route)
                      IN  IncludeLoop(
                              [self EXCEPT
                                  !.route_definition_order =
                                      DictSet(self.route_definition_order, new_route.oid,
                                              Len(self.route_definition_order)),
                                  !.routes = Append(self.routes, new_route)],
                              routes, i + 1, combined_prefix)
         IN  Track(Route(new_path, route.handler, route.methods, route.priority))

\* mutant: the prefix argument is not applied
IncludeWithoutPrefix(self, router, prefix) ==
    IncludeLoop(self, router.routes, 1, self.prefix)

include_router(self, router, prefix) ==
    LET stripped == rstrip(prefix, Slash)
        combined_prefix == IF stripped # << >> THEN self.prefix \o stripped ELSE self.prefix
    IN  IncludeLoop(self, router.routes, 1, combined_prefix)

\* mutant: the scan gives up when the first route does not match
FindFirstOnly(routes, i, path, method) ==
    IF i > Len(routes) THEN None
    ELSE LET Found(m) ==
                 IF m.matches THEN [route |-> routes[i], path_params |-> m.path_params]
                 ELSE None
         IN  Found(matches(routes[i], path, method))

\* None, or the first route of self.routes that matches, with its parameters
RECURSIVE FindFrom(_, _, _, _)
FindFrom(routes, i, path, method) ==
    IF i > Len(routes) THEN None
    ELSE LET Found(m) ==
                 IF m.matches THEN [route |-> routes[i], path_params |-> m.path_params]
                 ELSE FindFrom(routes, i + 1, path, method)
         IN  Found(matches(routes[i], path, method))

\* mutant: the first route that matches the path under some method decides
FirstPathMatchDecides(self, path, method) ==
    LET on_path == {i \in 1..Len(self.routes) :
                       \E m \in ValidMethods : matches(self.routes[i], path, m).matches}
        Decide(i) ==
            LET Found(m) ==
                    IF m.matches
                    THEN [route |-> self.routes[i], path_params |-> m.path_params]
                    ELSE None
            IN  Found(matches(self.routes[i], path, method))
    IN  IF on_path = {} THEN None
        ELSE Decide(CHOOSE i \in on_path : \A j \in on_path : i <= j)

find_route(self, path, method) == FindFrom(self.routes, 1, path, method)

\* sorted(methods) orders the method names as strings
MethodsSorted == <<"DELETE", "GET", "HEAD", "OPTIONS", "PATCH", "POST", "PUT">>

\* ", ".join(items)
RECURSIVE Join(_, _)
Join(sep, items) ==
    IF items = << >> THEN << >>
    ELSE IF Len(items) = 1 THEN items
    ELSE <<items[1], sep>> \o Join(sep, Tail(items))

\* mutant: only the first route that matches the path is asked
AllowedOfFirstRoute(self, path) ==
    LET hits == {i \in 1..Len(self.routes) :
                    \E m \in self.routes[i].methods : matches(self.routes[i], path, m).matches}
        first == CHOOSE i \in hits : \A j \in hits : i <= j
    IN  Join(", ", SelectSeq(MethodsSorted, LAMBDA m : m \in self.routes[first].methods))

_get_allowed_methods(self, path) ==
    LET methods == {m \in ValidMethods :
                       \E i \in 1..Len(self.routes) :
                           /\ m \in self.routes[i].methods
                           /\ matches(self.routes[i], path, m).matches}
    IN  Join(", ", SelectSeq(MethodsSorted, LAMBDA m : m \in methods))

\* mutant: a failed lookup is always reported as a method mismatch
PathAlwaysExists(self, path) == TRUE

\* any(route.matches(path, m)[0] for the seven methods, for route in routes)
path_exists(self, path) ==
    \E i \in 1..Len(self.routes) :
        \E m \in {"GET", "POST", "PUT", "DELETE", "PATCH", "HEAD", "OPTIONS"} :
            matches(self.routes[i], path, m).matches

\* mutant: the route found is moved to the front of the list, as a cache of
\* the most recently used route would
PromoteMatch(self, path, method) ==
    LET hits == {i \in 1..Len(self.routes) : matches(self.routes[i], path, method).matches}
        Promoted(i) ==
            <<self.routes[i]>> \o SubSeq(self.routes, 1, i - 1)
                               \o SubSeq(self.routes, i + 1, Len(self.routes))
    IN  IF hits = {} THEN self
        ELSE [self EXCEPT !.routes = Promoted(CHOOSE i \in hits : \A j \in hits : i <= j)]

\* the router after find_route or handle_request: neither of them, nor
\* matches or handle, assigns an attribute of the router or of a route
SelfAfterDispatch(self, path, method) == self

\* the request after the call, what was returned or raised, and the
\* handler invocations made
handle_request(self, request) ==
    LET Handled(req, h) ==
            [request |-> req, ok |-> h.ok, response |-> h.response,
             exc |-> h.exc, called |-> h.called]
        Bound(route, req) == Handled(req, handle(route, req))
        Dispatch(result) ==
            IF result = None
            THEN IF path_exists(self, request.path)
                 THEN [request |-> request, ok |-> TRUE, exc |-> None, called |-> << >>,
                       response |-> Response("Method Not Allowed", 405,
                                             << <<"allow",
                                                  _get_allowed_methods(self, request.path)>> >>)]
                 ELSE [request |-> request, ok |-> TRUE, exc |-> None, called |-> << >>,
                       response |-> Response("Not Found", 404, EmptyDict)]
            ELSE Bound(result.route, [request EXCEPT !.path_params = result.path_params])
    IN  Dispatch(find_route(self, request.path, request.method))

(***************************************************************************)
(* MiddlewareChain.  A chain is [middlewares]; a callable is the endpoint  *)
(* itself or a middleware_handler closure over (mw, next_app).             *)
(***************************************************************************)
MiddlewareChain == [middlewares |-> << >>]

add(self, middleware) == [self EXCEPT !.middlewares = Append(self.middlewares, middleware)]

clear(self) == [self EXCEPT !.middlewares = << >>]

chain_count(self) == Len(self.middlewares)

Endpoint(name) == [closure |-> "endpoint", name |-> name]

middleware_handler(mw, next_app) ==
    [closure |-> "middleware_handler", mw |-> mw, next_app |-> next_app]

\* mutant: the middleware are wrapped in registration order, so that the
\* last registered ends up outermost
RECURSIVE WrapForward(_, _, _)
WrapForward(middlewares, k, current_handler) ==
    IF k = 0 THEN current_handler
    ELSE WrapForward(middlewares, k - 1,
                     middleware_handler(middlewares[Len(middlewares) - k + 1], current_handler))

\* for middleware in reversed(self._middlewares): k runs from the last
\* registered down to the first
RECURSIVE Wrap(_, _, _)
Wrap(middlewares, k, current_handler) ==
    IF k = 0 THEN current_handler
    ELSE Wrap(middlewares, k - 1, middleware_handler(middlewares[k], current_handler))

\* mutant: the endpoint is always wrapped, in a callable that only passes
\* the request on, before the middleware are applied
BuildAlwaysWraps(self, endpoint) ==
    Wrap(self.middlewares, Len(self.middlewares), middleware_handler("middleware1", endpoint))

build(self, endpoint) ==
    IF self.middlewares = << >> THEN endpoint
    ELSE Wrap(self.middlewares, Len(self.middlewares), endpoint)

\* mutant: the list is reversed in place (list.reverse()) for the loop
ReversedInPlace(self) ==
    [self EXCEPT !.middlewares =
        [i \in 1..Len(self.middlewares) |->
            self.middlewares[Len(self.middlewares) - i + 1]]]

\* the chain after build: reversed(self._middlewares) iterates over the
\* list without changing it, and build assigns no attribute of the chain
SelfAfterBuild(self) == self

\* what a call completes with
Returned(response) == [kind |-> "return", response |-> response, exc |-> None]

Raised(exc) == [kind |-> "raise", response |-> None, exc |-> exc]

\* mutant: an exception of the inner handler is turned into a response
CallNextSwallows(result) ==
    IF result.kind = "raise"
    THEN Returned([status_code |-> 500, content |-> "Internal Server Error", via |-> << >>])
    ELSE result

\* async def call_next(req): return await next_app(req)
\* what next_app completes with is what the middleware's await completes with
call_next(result) == result

\* mutant: every call_next goes straight to the innermost callable
RECURSIVE Innermost(_)
Innermost(handler) ==
    IF handler.closure = "endpoint" THEN handler ELSE Innermost(handler.next_app)

\* the callable that middleware_handler's call_next awaits
next_app_of(handler) == handler.next_app

(***************************************************************************)
(* The middleware and endpoints of the application.  Each middleware       *)
(* either awaits call_next once and passes the response on (adding itself  *)
(* to it), answers by itself, raises, or wraps call_next in try/except as  *)
(* ExceptionMiddleware does.                                               *)
(***************************************************************************)
MiddlewarePool ==
    {"middleware1", "middleware2", "auth_middleware", "failing_middleware",
     "ExceptionMiddleware"}

Kind(mw) ==
    CASE mw \in {"middleware1", "middleware2"} -> "pass"
      [] mw = "auth_middleware" -> "short"
      [] mw = "failing_middleware" -> "raise"
      [] mw = "ExceptionMiddleware" -> "catch"

Endpoints == {"endpoint", "fail_handler"}

EndpointResult(name) ==
    IF name = "fail_handler" THEN Raised(Exc("RuntimeError", name))
    ELSE Returned([status_code |-> 200, content |-> name, via |-> << >>])

Frame(handler, pc) == [handler |-> handler, pc |-> pc]

Pop(stack) == SubSeq(stack, 1, Len(stack) - 1)

Top(stack) == stack[Len(stack)]

(***************************************************************************)
(* Inputs of the dispatch model.                                           *)
(***************************************************************************)
T_health == <<"/", "a", "p", "i", "/", "h", "e", "a", "l", "t", "h">>

T_name == <<"/", "a", "p", "i", "/", "{", "n", "a", "m", "e", "}">>

T_id_int == <<"/", "a", "p", "i", "/", "{", "i", "d", ":", "i", "n", "t", "}">>

T_files == <<"/", "f", "i", "l", "e", "s", "/",
             "{", "p", ":", "m", "u", "l", "t", "i", "p", "a", "t", "h", "}">>

T_unclosed == <<"/", "a", "p", "i", "/", "{", "i", "d">>

T_unknown == <<"/", "a", "p", "i", "/", "{", "i", "d", ":", "b", "o", "o", "l", "}">>

T_glob == <<"/", "a", "p", "i", "/", "*">>

\* the add_route calls the application makes: <<path, handler>>
Registrations ==
    { <<T_health, "health_check">>,
      <<T_name, "general_api">>,
      <<T_id_int, "get_item">>,
      <<T_id_int, "get_any">>,
      <<T_files, "serve_file">>,
      <<T_health, "get_item">>,
      <<T_id_int, "get_item_str">>,
      <<T_name, "health_check">> }

\* {} is methods=None
MethodSets == { {}, {"GET", "POST"}, {"GET", "TRACE"} }

Priorities == {0, 1}

RequestPaths ==
    { <<"/", "a", "p", "i", "/", "h", "e", "a", "l", "t", "h">>,
      <<"/", "a", "p", "i", "/", "h", "e", "a", "l", "t", "h", "/">>,
      <<"/", "a", "p", "i", "/", "1", "2">>,
      <<"/", "a", "p", "i", "/", "1", "2", "a">>,
      <<"/", "f", "i", "l", "e", "s", "/">>,
      <<"/", "f", "i", "l", "e", "s", "/", "a", "/", "b">>,
      <<"/", "o", "t", "h", "e", "r">> }

RequestMethods == {"GET", "POST", "DELETE"}

Queries == { EmptyDict }

T_users_int == <<"/", "u", "s", "e", "r", "s", "/", "{", "i", "d", ":", "i", "n", "t", "}">>

T_users_name == <<"/", "u", "s", "e", "r", "s", "/", "{", "n", "a", "m", "e", "}">>

T_search == <<"/", "s", "e", "a", "r", "c", "h">>

T_items == <<"/", "i", "t", "e", "m", "s">>

T_lookup == <<"/", "l", "o", "o", "k", "u", "p">>

DispatchRegistrations ==
    { <<T_users_int, "get_user">>,
      <<T_users_name, "get_user_by_name">>,
      <<T_files, "serve_file">>,
      <<T_search, "search">>,
      <<T_items, "list_items">>,
      <<T_lookup, "lookup">> }

DispatchMethodSets == { {}, {"GET", "POST"} }

P_users_123 == <<"/", "u", "s", "e", "r", "s", "/", "1", "2", "3">>

P_users_12a == <<"/", "u", "s", "e", "r", "s", "/", "1", "2", "a">>

P_files_empty == <<"/", "f", "i", "l", "e", "s", "/">>

P_files_a == <<"/", "f", "i", "l", "e", "s", "/", "a">>

P_files_a_slash == <<"/", "f", "i", "l", "e", "s", "/", "a", "/">>

P_files_abc == <<"/", "f", "i", "l", "e", "s", "/", "a", "/", "b", "/", "c">>

DispatchPaths ==
    {P_users_123, P_users_12a, P_files_empty, P_files_a, P_files_a_slash, P_files_abc,
     T_search, T_items, T_lookup}

DispatchMethods == {"GET", "POST"}

\* request.query_params: the first value of each key of the query string
Q_limit_abc == << <<N_limit, <<"a", "b", "c">> >> >>

Q_limit_5 == << <<N_limit, <<"5">> >> >>

Q_id_request == << <<N_id, <<"9", "9">> >>, <<N_request, <<"x">> >> >>

Q_page_2 == << <<N_page, <<"2">> >> >>

Q_q == << <<N_q, <<"h", "i">> >> >>

DispatchQueries == {EmptyDict, Q_limit_abc, Q_limit_5, Q_id_request, Q_page_2, Q_q}

\* Request.__init__ sets path_params = {}; a caller may have assigned it
StalePathParams == << <<N_name, <<"o", "l", "d">> >> >>

Request(path, method, query_params, path_params) ==
    [path |-> path, method |-> method, query_params |-> query_params,
     path_params |-> path_params]

(***************************************************************************)
(* The application object.  Its lifespan handlers are named; the lists     *)
(* start with the built-in handlers.  The fields after the handler lists   *)
(* are the lifespan connection: how many were opened, where                *)
(* _handle_lifespan stands, the messages the server has put on the         *)
(* connection (posted) and those not yet received (inbox), the messages    *)
(* sent, the handlers run, the index of the handler to run and the text    *)
(* of the exception caught.                                                *)
(***************************************************************************)
Vira ==
    [_middleware_built |-> FALSE,
     _app_with_middleware |-> None,
     _startup_handlers |-> <<"_build_middleware_chain">>,
     _shutdown_handlers |-> <<"_cleanup_all_requests">>,
     conn |-> 0, pc |-> "none", posted |-> << >>, inbox |-> << >>, sent |-> << >>,
     ran |-> << >>, i |-> 0, error |-> ""]

\* Vira.add_middleware: the chain after the call, and whether it raised
add_middleware(self, middleware_chain, middleware) ==
    IF self._middleware_built
    THEN [ok |-> FALSE, chain |-> add(middleware_chain, middleware),
          exc |-> Exc("RuntimeError",
                      "Cannot add middleware after application startup. Add all middleware before starting the server.")]
    ELSE [ok |-> TRUE, chain |-> add(middleware_chain, middleware), exc |-> None]

_register_event_handler(self, event_type, func) ==
    IF event_type = "startup"
    THEN [ok |-> TRUE, self |-> [self EXCEPT !._startup_handlers = Append(@, func)]]
    ELSE IF event_type = "shutdown"
    THEN [ok |-> TRUE, self |-> [self EXCEPT !._shutdown_handlers = Append(@, func)]]
    ELSE Raise("ValueError",
               <<"Invalid event type: ", event_type, ". Must be 'startup' or 'shutdown'">>)

\* what the handlers registered by the application do when awaited: the
\* text of the exception raised, "" for a handler that returns
HandlerRaises(func) ==
    CASE func = "failing_handler" -> "Startup failed"
      [] func = "failing_late" -> "Shutdown failed"
      [] OTHER -> ""

\* the handler at self.i has returned: the for loop goes to the next
\* handler, or ends and send is called with the complete message
Returns(self, handlers) ==
    IF self.i < Len(handlers) THEN [self EXCEPT !.i = self.i + 1]
    ELSE [self EXCEPT !.i = self.i + 1, !.pc = "returned",
                      !.sent = Append(@, <<"lifespan." \o self.pc \o ".complete">>)]

\* mutant: the loop over the handlers goes on after a handler that raised
KeepGoing(self, handlers, failure) ==
    IF self.i < Len(handlers) THEN [self EXCEPT !.i = self.i + 1, !.error = failure]
    ELSE [self EXCEPT !.i = self.i + 1, !.pc = "returned", !.error = failure,
                      !.sent = Append(@, <<"lifespan." \o self.pc \o ".complete">>)]

\* the exception of the handler at self.i leaves the for loop and is caught
\* in _handle_lifespan, which calls send with the failed message
Caught(self, handlers, failure) ==
    [self EXCEPT !.pc = "returned", !.error = failure,
                 !.sent = Append(@, <<"lifespan." \o self.pc \o ".failed", failure>>)]

(***************************************************************************)
(* State: the application's router, and the call in progress with what it  *)
(* returned or raised (last), until the caller has taken the result.       *)
(***************************************************************************)
VARIABLES router, last

\* The middleware side: the chain, the number of add calls made, the last
\* build call (the list it saw, the endpoint, the callable it returned), the
\* build whose callable is being run, the stack of calls in progress, the
\* result being handed to the caller, the events so far and the outcome.
VARIABLES chain, added, built, call, stack, ret, trace, outcome

\* The router handed to include_router, the requests being handled by
\* concurrent tasks, and the application object with its lifespan connection.
VARIABLES sub, inflight, app

Idle == [op |-> "idle"]

routervars == <<router, last>>

chainvars == <<chain, added, built, call, stack, ret, trace, outcome>>

othervars == <<sub, inflight, app>>

vars == <<router, last, chain, added, built, call, stack, ret, trace, outcome,
          sub, inflight, app>>

InitRouter ==
    /\ router = APIRouter(<< >>)
    /\ last = Idle

InitChain ==
    /\ chain = MiddlewareChain
    /\ added = 0
    /\ built = None
    /\ call = None
    /\ stack = << >>
    /\ ret = None
    /\ trace = << >>
    /\ outcome = None

InitOther ==
    /\ sub = APIRouter(<< >>)
    /\ inflight = << >>
    /\ app = Vira

Init == InitRouter /\ InitChain /\ InitOther

\* add_route with its arguments drawn from the given sets
AddRouteOver(registrations, method_sets, priorities) ==
    /\ last = Idle
    /\ Len(router.routes) < MaxRoutes
    /\ \E reg \in registrations, methods \in method_sets, priority \in priorities :
          \E r \in {add_route(router, reg[1], reg[2], methods, priority)} :
              IF r.ok
              THEN /\ router' = r.self
                   /\ last' = [op |-> "add_route", path |-> reg[1], handler |-> reg[2],
                               methods |-> methods, priority |-> priority,
                               before |-> router, ok |-> TRUE, route |-> r.route,
                               exc |-> None]
              ELSE /\ router' = router
                   /\ last' = [op |-> "add_route", path |-> reg[1], handler |-> reg[2],
                               methods |-> methods, priority |-> priority,
                               before |-> router, ok |-> FALSE, route |-> None,
                               exc |-> r.exc]
    /\ UNCHANGED <<chainvars, othervars>>

AddRoute == AddRouteOver(Registrations, MethodSets, Priorities)

FindRouteOver(paths, methods) ==
    /\ last = Idle
    /\ \E path \in paths, method \in methods :
          /\ last' = [op |-> "find_route", path |-> path, method |-> method,
                      result |-> find_route(router, path, method)]
          /\ router' = SelfAfterDispatch(router, path, method)
    /\ UNCHANGED <<chainvars, othervars>>

FindRoute == FindRouteOver(RequestPaths, RequestMethods)

\* the caller repeats the find_route call it has just made
FindRouteAgain ==
    /\ last # Idle
    /\ last.op = "find_route"
    /\ last' = [op |-> "find_route_again", path |-> last.path, method |-> last.method,
                first |-> last.result,
                result |-> find_route(router, last.path, last.method)]
    /\ router' = SelfAfterDispatch(router, last.path, last.method)
    /\ UNCHANGED <<chainvars, othervars>>

HandleRequestOver(paths, methods, queries, params) ==
    /\ last = Idle
    /\ \E path \in paths, method \in methods, query \in queries, path_params \in params :
          \E request \in {Request(path, method, query, path_params)} :
              \E r \in {handle_request(router, request)} :
                  /\ last' = [op |-> "handle_request", before |-> request,
                              request |-> r.request, ok |-> r.ok,
                              response |-> r.response, exc |-> r.exc,
                              called |-> r.called]
                  /\ router' = SelfAfterDispatch(router, path, method)
    /\ UNCHANGED <<chainvars, othervars>>

HandleRequest ==
    HandleRequestOver(RequestPaths, RequestMethods, Queries, {EmptyDict, StalePathParams})

\* the caller takes the result of the call
Return ==
    /\ last # Idle
    /\ last' = Idle
    /\ UNCHANGED <<router, chainvars, othervars>>

Next == AddRoute \/ FindRoute \/ HandleRequest \/ Return

Spec == Init /\ [][Next]_vars

(***************************************************************************)
(* Dispatch with parameter binding: an application with typed, catch-all   *)
(* and query-bound routes, under requests that carry a query string.       *)
(***************************************************************************)
RegisterRoute == AddRouteOver(DispatchRegistrations, DispatchMethodSets, {0})

Lookup == FindRouteOver(DispatchPaths, DispatchMethods)

Dispatch == HandleRequestOver(DispatchPaths, DispatchMethods, DispatchQueries, {EmptyDict})

NextDispatch == RegisterRoute \/ Lookup \/ FindRouteAgain \/ Dispatch \/ Return

SpecDispatch == Init /\ [][NextDispatch]_vars

(***************************************************************************)
(* The middleware chain: registration, build, and one request at a time    *)
(* run through the built callable, one call or return per step.            *)
(***************************************************************************)
ChainAdd ==
    /\ added < MaxMiddleware
    /\ \E mw \in MiddlewarePool : chain' = add(chain, mw)
    /\ added' = added + 1
    /\ UNCHANGED <<routervars, othervars, built, call, stack, ret, trace, outcome>>

ChainClear ==
    /\ chain' = clear(chain)
    /\ UNCHANGED <<routervars, othervars, added, built, call, stack, ret, trace, outcome>>

ChainBuild ==
    /\ \E e \in Endpoints :
          built' = [middlewares |-> chain.middlewares, endpoint |-> e,
                    handler |-> build(chain, Endpoint(e)), adds |-> added]
    /\ chain' = SelfAfterBuild(chain)
    /\ UNCHANGED <<routervars, othervars, added, call, stack, ret, trace, outcome>>

\* await handler(request) on the callable of the last build
Call ==
    /\ built # None
    /\ stack = << >>
    /\ ret = None
    /\ call' = built
    /\ stack' = <<Frame(built.handler, "enter")>>
    /\ trace' = << >>
    /\ outcome' = None
    /\ UNCHANGED <<routervars, othervars, chain, added, built, ret>>

\* the callable on top of the stack starts: the endpoint runs, or the
\* middleware runs up to its await of call_next, its return or its raise
Enter ==
    /\ stack # << >>
    /\ Top(stack).pc = "enter"
    /\ ret = None
    /\ LET h == Top(stack).handler
       IN  IF h.closure = "endpoint"
           THEN /\ trace' = Append(trace, <<"endpoint", h.name>>)
                /\ stack' = Pop(stack)
                /\ ret' = EndpointResult(h.name)
           ELSE /\ trace' = Append(trace, <<"before", h.mw>>)
                /\ IF Kind(h.mw) \in {"pass", "catch"}
                   THEN /\ stack' = Pop(stack) \o <<Frame(h, "awaiting"),
                                                     Frame(next_app_of(h), "enter")>>
                        /\ ret' = None
                   ELSE /\ stack' = Pop(stack)
                        /\ ret' = IF Kind(h.mw) = "short"
                                  THEN Returned([status_code |-> 401, content |-> h.mw,
                                                 via |-> << >>])
                                  ELSE Raised(Exc("RuntimeError", h.mw))
    /\ UNCHANGED <<routervars, othervars, chain, added, built, call, outcome>>

\* the await of call_next in the middleware on top of the stack completes
Resume ==
    /\ stack # << >>
    /\ Top(stack).pc = "awaiting"
    /\ ret # None
    /\ LET h == Top(stack).handler
           got == call_next(ret)
       IN  /\ stack' = Pop(stack)
           /\ IF got.kind = "return"
              THEN /\ trace' = Append(trace, <<"after", h.mw>>)
                   /\ ret' = IF Kind(h.mw) = "pass"
                             THEN Returned([got.response EXCEPT
                                               !.via = Append(got.response.via, h.mw)])
                             ELSE got
              ELSE IF Kind(h.mw) = "catch"
              THEN /\ trace' = Append(trace, <<"caught", h.mw>>)
                   /\ ret' = Returned([status_code |-> 500, content |-> got.exc.type,
                                       via |-> << >>])
              ELSE /\ trace' = trace
                   /\ ret' = got
    /\ UNCHANGED <<routervars, othervars, chain, added, built, call, outcome>>

\* the outermost callable has completed
Done ==
    /\ stack = << >>
    /\ ret # None
    /\ outcome' = ret
    /\ ret' = None
    /\ UNCHANGED <<routervars, othervars, chain, added, built, call, stack, trace>>

(***************************************************************************)
(* Routers merged with include_router.                                     *)
(***************************************************************************)
MaxSubRoutes == 2

RouterPrefixes == { << >>, <<"/", "v", "1">> }

SubPrefixes == { << >>, <<"/", "a", "p", "i", "/">> }

IncludePrefixes ==
    { << >>, <<"/", "x", "/">>, <<"/", "{", "p", "a", "g", "e", ":", "i", "n", "t", "}">> }

MergeRegistrations ==
    { <<T_health, "health_check">>,
      <<T_unclosed, "get_item">>,
      <<T_unknown, "get_item">>,
      <<T_glob, "health_check">> }

SubRegistrations ==
    { <<T_items, "list_items">>,
      <<T_search, "search">>,
      <<<<Slash>>, "health_check">> }

\* APIRouter(prefix) for the application's router and for the one it includes
Construct ==
    /\ last = Idle
    /\ router.routes = << >>
    /\ sub.routes = << >>
    /\ \E prefix \in RouterPrefixes, sub_prefix \in SubPrefixes :
          /\ router' = APIRouter(prefix)
          /\ sub' = APIRouter(sub_prefix)
    /\ UNCHANGED <<last, chainvars, inflight, app>>

MergeAddRoute ==
    /\ AddRouteOver(MergeRegistrations, { {} }, Priorities)

\* add_route on the router that will be included
SubAddRoute ==
    /\ last = Idle
    /\ Len(sub.routes) < MaxSubRoutes
    /\ \E reg \in SubRegistrations, priority \in Priorities :
          \E r \in {add_route(sub, reg[1], reg[2], {}, priority)} :
              sub' = IF r.ok THEN r.self ELSE sub
    /\ UNCHANGED <<router, last, chainvars, inflight, app>>

IncludeRouter ==
    /\ last = Idle
    /\ Len(router.routes) < MaxRoutes
    /\ \E prefix \in IncludePrefixes :
          \E r \in {include_router(router, sub, prefix)} :
              /\ router' = r.self
              /\ last' = [op |-> "include_router", prefix |-> prefix, before |-> router,
                          router |-> sub, ok |-> r.ok, exc |-> r.exc]
    /\ UNCHANGED <<sub, chainvars, inflight, app>>

NextMerge == Construct \/ MergeAddRoute \/ SubAddRoute \/ IncludeRouter \/ Return

SpecMerge == Init /\ [][NextMerge]_vars

(***************************************************************************)
(* Requests handled concurrently: each is a task that runs handle_request  *)
(* up to the first await inside the handler, and later resumes.            *)
(***************************************************************************)
MaxInflight == 2

ServedPaths == {P_users_123, P_users_12a, <<"/", "u", "s", "e", "r", "s", "/", "7">>}

ServeRegister ==
    /\ AddRouteOver({<<T_users_int, "get_user">>, <<T_users_name, "get_user_by_name">>},
                    { {} }, {0})

\* mutant: the path parameters are kept where every request sees them
PathParamsOnClass(tasks, i, r) ==
    [j \in 1..Len(tasks) |->
        IF j = i
        THEN [request |-> r.request, pc |-> IF r.called # << >> THEN "awaiting" ELSE "done",
              called |-> r.called, ok |-> r.ok, exc |-> r.exc,
              pending |-> r.response, response |-> None]
        ELSE [tasks[j] EXCEPT !.request.path_params = r.request.path_params]]

\* the task that ran handle_request(request) holds the request it was
\* given, with the path parameters set on it, and what the call came to
TasksAfterDispatch(tasks, i, r) ==
    [tasks EXCEPT
        ![i] = [request |-> r.request, pc |-> IF r.called # << >> THEN "awaiting" ELSE "done",
                called |-> r.called, ok |-> r.ok, exc |-> r.exc,
                pending |-> r.response, response |-> None]]

\* a connection brings a new Request object
Accept ==
    /\ Len(inflight) < MaxInflight
    /\ \E path \in ServedPaths :
          inflight' = Append(inflight,
                             [request |-> Request(path, "GET", EmptyDict, EmptyDict),
                              pc |-> "accepted", called |-> << >>, ok |-> TRUE,
                              exc |-> None, pending |-> None, response |-> None])
    /\ UNCHANGED <<routervars, chainvars, sub, app>>

\* handle_request runs for one request until the handler awaits, or to its
\* end when no handler is called
DispatchTask ==
    /\ \E i \in 1..Len(inflight) :
          /\ inflight[i].pc = "accepted"
          /\ \E r \in {handle_request(router, inflight[i].request)} :
                inflight' = TasksAfterDispatch(inflight, i, r)
    /\ UNCHANGED <<routervars, chainvars, sub, app>>

\* the handler of one request resumes and returns its response
FinishTask ==
    /\ \E i \in 1..Len(inflight) :
          /\ inflight[i].pc = "awaiting"
          /\ inflight' = [inflight EXCEPT ![i].pc = "done",
                                           ![i].response = inflight[i].pending]
    /\ UNCHANGED <<routervars, chainvars, sub, app>>

\* the responses were sent and the connections are gone
CloseAll ==
    /\ inflight # << >>
    /\ \A i \in 1..Len(inflight) : inflight[i].pc = "done"
    /\ inflight' = << >>
    /\ UNCHANGED <<routervars, chainvars, sub, app>>

NextConcurrent ==
    ServeRegister \/ Return \/ Accept \/ DispatchTask \/ FinishTask \/ CloseAll

SpecConcurrent == Init /\ [][NextConcurrent]_vars

(***************************************************************************)
(* The application: middleware and lifespan handlers are registered, the   *)
(* server opens lifespan connections and puts messages on them, and        *)
(* _handle_lifespan runs step by step.                                     *)
(***************************************************************************)
MaxHandlers == 4

MaxConnections == 2

HandlerPool == {"startup_1", "failing_handler", "failing_late"}

AppAddMiddleware ==
    /\ last = Idle
    /\ added < MaxMiddleware
    /\ \E mw \in {"middleware1", "auth_middleware"} :
          \E r \in {add_middleware(app, chain, mw)} :
              /\ chain' = r.chain
              /\ last' = [op |-> "add_middleware", middleware |-> mw, before |-> chain,
                          built |-> app._middleware_built, ok |-> r.ok, exc |-> r.exc]
    /\ added' = added + 1
    /\ UNCHANGED <<router, built, call, stack, ret, trace, outcome, sub, inflight, app>>

AddEventHandler ==
    /\ Len(app._startup_handlers) + Len(app._shutdown_handlers) < MaxHandlers
    /\ \E event_type \in {"startup", "shutdown", "invalid"}, func \in HandlerPool :
          \E r \in {_register_event_handler(app, event_type, func)} :
              app' = IF r.ok THEN r.self ELSE app
    /\ UNCHANGED <<routervars, chainvars, sub, inflight>>

\* the server calls the application with a lifespan scope; it opens no new
\* connection while a message of the last one is still to be received
Connect ==
    /\ app.pc \in {"none", "returned"}
    /\ app.inbox = << >>
    /\ app.conn < MaxConnections
    /\ app' = [app EXCEPT !.conn = app.conn + 1, !.pc = "receive", !.posted = << >>,
                          !.inbox = << >>, !.sent = << >>, !.ran = << >>, !.i = 0,
                          !.error = ""]
    /\ UNCHANGED <<routervars, chainvars, sub, inflight>>

\* the server puts a message on the connection: lifespan.startup or
\* lifespan.shutdown first, lifespan.shutdown once the startup was answered
\* with lifespan.startup.complete
ServerSend ==
    /\ app.pc # "none"
    /\ \E message \in {"lifespan.startup", "lifespan.shutdown"} :
          /\ \/ app.posted = << >>
             \/ /\ app.posted = <<"lifespan.startup">>
                /\ app.sent = << <<"lifespan.startup.complete">> >>
                /\ message = "lifespan.shutdown"
          /\ app' = [app EXCEPT !.posted = Append(@, message), !.inbox = Append(@, message)]
    /\ UNCHANGED <<routervars, chainvars, sub, inflight>>

\* message = await receive(), and the branch on its type
LifespanReceive ==
    /\ app.pc = "receive"
    /\ app.inbox # << >>
    /\ app' = [app EXCEPT !.inbox = Tail(@), !.i = 1,
                          !.pc = IF Head(app.inbox) = "lifespan.startup" THEN "startup"
                                 ELSE IF Head(app.inbox) = "lifespan.shutdown" THEN "shutdown"
                                 ELSE "returned"]
    /\ UNCHANGED <<routervars, chainvars, sub, inflight>>

\* await handler() for the next handler of the list; after the last one,
\* or from the except branch, the call of send and the return
RunHandler ==
    /\ app.pc \in {"startup", "shutdown"}
    /\ LET handlers == IF app.pc = "startup" THEN app._startup_handlers
                       ELSE app._shutdown_handlers
       IN  /\ app.i <= Len(handlers)
           /\ LET handler == handlers[app.i]
                  started == [app EXCEPT !.ran = Append(@, handler)]
              IN  IF handler = "_build_middleware_chain" /\ ~app._middleware_built
                  THEN app' = Returns([started EXCEPT
                                          !._app_with_middleware =
                                              build(chain, Endpoint("handle_request")),
                                          !._middleware_built = TRUE],
                                      handlers)
                  ELSE IF HandlerRaises(handler) # ""
                  THEN app' = Caught(started, handlers, HandlerRaises(handler))
                  ELSE app' = Returns(started, handlers)
    /\ UNCHANGED <<routervars, chainvars, sub, inflight>>

NextApp ==
    \/ AppAddMiddleware
    \/ Return
    \/ AddEventHandler
    \/ Connect
    \/ ServerSend
    \/ LifespanReceive
    \/ RunHandler

SpecApp == Init /\ [][NextApp]_vars

\* the event loop runs a coroutine that is ready to go on
SpecAppFair ==
    /\ Init
    /\ [][NextApp]_vars
    /\ WF_vars(LifespanReceive)
    /\ WF_vars(RunHandler)

NextChain == ChainAdd \/ ChainClear \/ ChainBuild \/ Call \/ Enter \/ Resume \/ Done

SpecChain == Init /\ [][NextChain]_vars

(***************************************************************************)
(* Vocabulary of the properties, stated without the router's sort key.     *)
(***************************************************************************)
Routes == {router.routes[i] : i \in 1..Len(router.routes)}

\* the segments of a normalized template: the text between the slashes
TemplateSegments(path) ==
    IF path = <<Slash>> THEN << << >> >> ELSE split(Tail(path), Slash)

IsPlaceholder(seg) == Len(seg) > 0 /\ seg[1] = "{"

LiteralCount(route) ==
    LET segs == TemplateSegments(route.path)
    IN  Cardinality({i \in 1..Len(segs) : ~IsPlaceholder(segs[i])})

SegmentCount(route) == Len(TemplateSegments(route.path))

\* a is more specific than b: priority, literal segments, all segments,
\* then earlier registration (objects are numbered as they are created)
MoreSpecific(a, b) ==
    \/ a.priority > b.priority
    \/ a.priority = b.priority /\ LiteralCount(a) > LiteralCount(b)
    \/ a.priority = b.priority /\ LiteralCount(a) = LiteralCount(b)
       /\ SegmentCount(a) > SegmentCount(b)
    \/ a.priority = b.priority /\ LiteralCount(a) = LiteralCount(b)
       /\ SegmentCount(a) = SegmentCount(b) /\ a.oid < b.oid

Matching(path, method) == {r \in Routes : matches(r, path, method).matches}

MatchingPath(path) == UNION {Matching(path, m) : m \in ValidMethods}

C2_FindRouteMostSpecificMatch ==
    last.op = "find_route" =>
        LET M == Matching(last.path, last.method)
        IN  IF M = {} THEN last.result = None
            ELSE /\ last.result # None
                 /\ last.result.route \in M
                 /\ \A other \in M \ {last.result.route} :
                        MoreSpecific(last.result.route, other)
                 /\ last.result.path_params =
                        matches(last.result.route, last.path, last.method).path_params

\* two routes match and the one registered second is returned
C2_Witness ==
    /\ last.op = "find_route"
    /\ Cardinality(Matching(last.path, last.method)) = 2
    /\ last.result # None
    /\ \E other \in Matching(last.path, last.method) : other.oid < last.result.route.oid
    /\ last.result.path_params # EmptyDict

(***************************************************************************)
(* C6: when no route matches (path, method) but some route matches the     *)
(* path under another standard method, handle_request answers 405, calls   *)
(* no handler, and the Allow header lists, in sorted order and separated   *)
(* by ", ", exactly the methods of the routes that match the path.         *)
(***************************************************************************)
AllowedFor(path) == UNION {r.methods : r \in MatchingPath(path)}

\* h is the members of S in string order, ", " between them
IsSortedJoin(h, S) ==
    /\ Len(h) = 2 * Cardinality(S) - 1
    /\ \A i \in 1..Len(h) : i % 2 = 0 => h[i] = ", "
    /\ {h[i] : i \in {j \in 1..Len(h) : j % 2 = 1}} = S
    /\ \A i \in 1..Len(h), j \in 1..Len(h) :
          (i % 2 = 1 /\ j % 2 = 1 /\ i < j) =>
              \E a \in 1..Len(MethodsSorted), b \in 1..Len(MethodsSorted) :
                  a < b /\ MethodsSorted[a] = h[i] /\ MethodsSorted[b] = h[j]

C6_MethodNotAllowed ==
    (/\ last.op = "handle_request"
     /\ Matching(last.before.path, last.before.method) = {}
     /\ MatchingPath(last.before.path) # {}) =>
        /\ last.ok
        /\ last.response.status_code = 405
        /\ last.called = << >>
        /\ DictHas(last.response.headers, "allow")
        /\ IsSortedJoin(DictGet(last.response.headers, "allow"),
                        AllowedFor(last.before.path))

\* DELETE on a path served by a GET-only route and a GET, POST route
C6_Witness ==
    /\ last.op = "handle_request"
    /\ last.before.method = "DELETE"
    /\ \E a \in MatchingPath(last.before.path), b \in MatchingPath(last.before.path) :
          a.methods = {"GET"} /\ b.methods = {"GET", "POST"}
    /\ last.ok
    /\ last.response.status_code = 405
    /\ DictGet(last.response.headers, "allow") = <<"GET", ", ", "POST">>

(***************************************************************************)
(* C7: when no registered route matches the request path under any of the  *)
(* seven standard methods, handle_request answers 404, calls no handler    *)
(* and leaves request.path_params as it was.                               *)
(***************************************************************************)
C7_NotFound ==
    (/\ last.op = "handle_request"
     /\ MatchingPath(last.before.path) = {}) =>
        /\ last.ok
        /\ last.response.status_code = 404
        /\ last.called = << >>
        /\ last.request.path_params = last.before.path_params

\* a 404 from a router that has routes, for a request that carried
\* path parameters already
C7_Witness ==
    /\ last.op = "handle_request"
    /\ Routes # {}
    /\ MatchingPath(last.before.path) = {}
    /\ last.before.path_params = StalePathParams
    /\ last.request.path_params = StalePathParams
    /\ last.response.status_code = 404

(***************************************************************************)
(* C8: a route with a typed parameter does not match a path whose text at  *)
(* that parameter cannot be converted: matches answers no-match with empty *)
(* parameters, find_route goes on to the routes after it (a less specific  *)
(* route that matches the path is returned), and handle_request answers    *)
(* 404 when no other route matches the path.                               *)
(***************************************************************************)
RequestSegments(path) == TemplateSegments(OrRoot(rstrip(path, Slash)))

IntPlaceholder(seg) ==
    /\ Len(seg) > 5
    /\ seg[1] = "{"
    /\ SubSeq(seg, Len(seg) - 4, Len(seg)) = <<":", "i", "n", "t", "}">>

\* the path has the route's shape, and at an {x:int} segment it has text
\* that is not a run of digits
FailsConversion(r, path) ==
    LET t == TemplateSegments(r.path)
        q == RequestSegments(path)
    IN  /\ Len(t) = Len(q)
        /\ \A k \in 1..Len(t) : ~IsPlaceholder(t[k]) => t[k] = q[k]
        /\ \E k \in 1..Len(t) :
              IntPlaceholder(t[k]) /\ ~(Len(q[k]) > 0 /\ AllIn(q[k], Digits))

C8_ConversionFailureIsNoMatch ==
    /\ last.op = "find_route" =>
          \A r \in Routes :
              FailsConversion(r, last.path) =>
                  /\ matches(r, last.path, last.method) = NoRouteMatch
                  /\ (last.result # None => last.result.route # r)
                  /\ (last.result = None <=> Matching(last.path, last.method) \ {r} = {})
    /\ last.op = "handle_request" =>
          \A r \in Routes :
              (FailsConversion(r, last.before.path) /\ MatchingPath(last.before.path) \ {r} = {})
                  => last.ok /\ last.response.status_code = 404 /\ last.called = << >>

\* /api/12a: the {id:int} route is ahead of {name} and is passed over
C8_Witness ==
    /\ last.op = "find_route"
    /\ Len(router.routes) = 2
    /\ FailsConversion(router.routes[1], last.path)
    /\ last.method \in router.routes[1].methods
    /\ last.result # None
    /\ last.result.route = router.routes[2]

(***************************************************************************)
(* C9: every registered route has, for each parameter of its pattern, a    *)
(* handler parameter of that name that is not the Request parameter, and   *)
(* its handler path parameters are parameters of the pattern; add_route    *)
(* raises when a pattern parameter has no such handler parameter; so when  *)
(* a matched request is dispatched every pattern parameter is bound, only  *)
(* declared parameters are passed, and no call fails for a missing         *)
(* argument that is a pattern parameter.                                   *)
(***************************************************************************)
BindableNames(handler) ==
    {Signature(handler)[i].name :
        i \in {j \in 1..Len(Signature(handler)) : Signature(handler)[j].annotation # "Request"}}

AllNames(handler) == {Signature(handler)[i].name : i \in 1..Len(Signature(handler))}

\* the pattern of a registration, when its template compiles
PatternOf(path) == _compile_route_pattern(OrRoot(rstrip(path, Slash)))

C9_PathParametersConsistent ==
    /\ \A r \in Routes :
          /\ DictKeys(r.param_types) \subseteq BindableNames(r.handler)
          /\ r.handler_path_params \subseteq DictKeys(r.param_types)
    /\ (last.op = "add_route" /\ last.methods \subseteq ValidMethods /\ PatternOf(last.path).ok) =>
          (~(DictKeys(PatternOf(last.path).param_types) \subseteq BindableNames(last.handler))
              => (~last.ok /\ last.exc.type = "ValueError" /\ router = last.before))
    /\ (last.op = "handle_request" /\ Matching(last.before.path, last.before.method) # {}) =>
          LET r == CHOOSE x \in Matching(last.before.path, last.before.method) :
                       \A y \in Matching(last.before.path, last.before.method) \ {x} :
                           MoreSpecific(x, y)
          IN  /\ \A i \in 1..Len(last.called) :
                    /\ last.called[i].handler = r.handler
                    /\ DictKeys(r.param_types) \subseteq DictKeys(last.called[i].kwargs)
                    /\ DictKeys(last.called[i].kwargs) \subseteq AllNames(r.handler)
              /\ (~last.ok /\ last.exc.msg[1] = "missing required argument: '")
                    => last.exc.msg[2] \notin DictKeys(r.param_types)

\* a handler called with the converted parameter of its route's pattern
C9_Witness ==
    /\ last.op = "handle_request"
    /\ Len(last.called) = 1
    /\ last.called[1].handler = "get_any"
    /\ DictKeys(last.called[1].kwargs) = {N_id}
    /\ DictGet(last.called[1].kwargs, N_id) = 12

(***************************************************************************)
(* C10: add_route with a handler that annotates a path parameter with a    *)
(* type other than the one the pattern declares raises a ValueError whose  *)
(* message names the parameter, the pattern's type and the annotation, and *)
(* registers nothing; a handler that leaves its path parameters            *)
(* unannotated is accepted whatever the pattern's types.                   *)
(***************************************************************************)
\* the annotation that goes with a declared type
AnnotationFor(param_type) == IF param_type = "multipath" THEN "str" ELSE param_type

Mismatched(handler, param_types) ==
    {n \in DictKeys(param_types) \cap BindableNames(handler) :
        /\ SigParam(Signature(handler), n).annotation # "empty"
        /\ SigParam(Signature(handler), n).annotation # AnnotationFor(DictGet(param_types, n))}

C10_TypeMismatchRejected ==
    (/\ last.op = "add_route"
     /\ last.methods \subseteq ValidMethods
     /\ PatternOf(last.path).ok
     /\ DictKeys(PatternOf(last.path).param_types) \subseteq BindableNames(last.handler)) =>
        LET pt == PatternOf(last.path).param_types
            bad == Mismatched(last.handler, pt)
        IN  IF bad # {}
            THEN /\ ~last.ok
                 /\ last.exc.type = "ValueError"
                 /\ router = last.before
                 /\ last.exc.msg[1] = "Parameter '"
                 /\ last.exc.msg[2] \in bad
                 /\ SubSeq(last.exc.msg, 4, 6) = Repr(DictGet(pt, last.exc.msg[2]))
                 /\ SubSeq(last.exc.msg, 8, 10) =
                        Repr(SigParam(Signature(last.handler), last.exc.msg[2]).annotation)
            ELSE /\ last.ok
                 /\ Len(router.routes) = Len(last.before.routes) + 1

\* {id:int} against id: str is refused and names id, int and str
C10_Witness ==
    /\ last.op = "add_route"
    /\ last.path = T_id_int
    /\ last.handler = "get_item_str"
    /\ ~last.ok
    /\ last.exc.msg[2] = N_id
    /\ last.exc.msg[5] = "int"
    /\ last.exc.msg[9] = "str"
    /\ router = last.before

(***************************************************************************)
(* Vocabulary of the middleware properties: the run in progress is the one *)
(* of call.handler, built from the list call.middlewares around            *)
(* call.endpoint.                                                          *)
(***************************************************************************)
Mws == call.middlewares

CallsNext(mw) == Kind(mw) \in {"pass", "catch"}

\* before-events of m1..mk in registration order
Befores(k) == [i \in 1..k |-> <<"before", Mws[i]>>]

\* after-events of mk..m1, the reverse of registration order
Afters(k) == [i \in 1..k |-> <<"after", Mws[k - i + 1]>>]

\* the middleware among m1..mk that add themselves to the response, in
\* the order mk..m1 in which their after-phases run
RECURSIVE ViaOf(_)
ViaOf(k) ==
    IF k = 0 THEN << >>
    ELSE (IF Kind(Mws[k]) = "pass" THEN <<Mws[k]>> ELSE << >>) \o ViaOf(k - 1)

IsPrefix(a, b) == Len(a) <= Len(b) /\ a = SubSeq(b, 1, Len(a))

\* the first middleware that does not call next; Len(Mws) + 1 when all do
FirstStop ==
    IF \E i \in 1..Len(Mws) : ~CallsNext(Mws[i])
    THEN CHOOSE i \in 1..Len(Mws) :
             ~CallsNext(Mws[i]) /\ \A j \in 1..(i - 1) : CallsNext(Mws[j])
    ELSE Len(Mws) + 1

(***************************************************************************)
(* C3: when every registered middleware calls next once and the endpoint   *)
(* returns, one call of the built handler runs before m1, ..., before mn,  *)
(* the endpoint once, after mn, ..., after m1, in that order and nothing   *)
(* else, and returns the endpoint's response as passed outward through     *)
(* every after-phase.                                                      *)
(***************************************************************************)
C3_OnionOrder ==
    (/\ call # None
     /\ \A i \in 1..Len(Mws) : CallsNext(Mws[i])
     /\ call.endpoint = "endpoint") =>
        LET n == Len(Mws)
            full == Befores(n) \o << <<"endpoint", call.endpoint>> >> \o Afters(n)
        IN  /\ IsPrefix(trace, full)
            /\ outcome # None =>
                  /\ trace = full
                  /\ outcome.kind = "return"
                  /\ outcome.response.status_code = 200
                  /\ outcome.response.content = call.endpoint
                  /\ outcome.response.via = ViaOf(n)

\* [A, B] and E: A-before, B-before, E, B-after, A-after
C3_Witness ==
    /\ call # None
    /\ call.middlewares = <<"middleware1", "middleware2">>
    /\ outcome # None
    /\ trace = << <<"before", "middleware1">>, <<"before", "middleware2">>,
                  <<"endpoint", "endpoint">>,
                  <<"after", "middleware2">>, <<"after", "middleware1">> >>
    /\ outcome.response.via = <<"middleware2", "middleware1">>

(***************************************************************************)
(* C4: when mk answers without calling next (the middleware before it all  *)
(* call next), neither the endpoint nor any middleware registered after mk *)
(* runs, the middleware before mk run their after-phases in reverse order, *)
(* and the response that comes out is mk's, passed through them.           *)
(***************************************************************************)
C4_ShortCircuit ==
    (/\ call # None
     /\ FirstStop <= Len(Mws)
     /\ Kind(Mws[FirstStop]) = "short") =>
        LET k == FirstStop
            full == Befores(k) \o Afters(k - 1)
        IN  /\ IsPrefix(trace, full)
            /\ outcome # None =>
                  /\ trace = full
                  /\ outcome.kind = "return"
                  /\ outcome.response.status_code = 401
                  /\ outcome.response.content = Mws[k]
                  /\ outcome.response.via = ViaOf(k - 1)

\* [A, auth, B]: B and the endpoint never run, A gets auth's response
C4_Witness ==
    /\ call # None
    /\ call.middlewares = <<"middleware1", "auth_middleware", "middleware2">>
    /\ outcome # None
    /\ trace = << <<"before", "middleware1">>, <<"before", "auth_middleware">>,
                  <<"after", "middleware1">> >>
    /\ outcome.response.content = "auth_middleware"
    /\ outcome.response.via = <<"middleware1">>

(***************************************************************************)
(* C5: an exception raised by the endpoint or by middleware mk is handed   *)
(* unchanged to the pending call of next of the middleware before mk, one  *)
(* at a time from the innermost outward; a middleware that does not catch  *)
(* it runs no after-phase; with no catching middleware the call of the     *)
(* built handler raises that same exception, and otherwise the innermost   *)
(* catching middleware outside mk turns it into its response, which the    *)
(* middleware outside that one pass on as usual.                           *)
(***************************************************************************)
\* the innermost catching middleware outside position k; 0 when none
Catcher(k) ==
    IF \E j \in 1..(k - 1) : Kind(Mws[j]) = "catch"
    THEN CHOOSE j \in 1..(k - 1) :
             Kind(Mws[j]) = "catch" /\ \A l \in (j + 1)..(k - 1) : Kind(Mws[l]) # "catch"
    ELSE 0

SourceRaises ==
    IF FirstStop <= Len(Mws) THEN Kind(Mws[FirstStop]) = "raise"
    ELSE call.endpoint = "fail_handler"

C5_ExceptionPropagates ==
    (call # None /\ SourceRaises) =>
        LET k == FirstStop
            n == Len(Mws)
            j == Catcher(k)
            source == IF k <= n THEN Mws[k] ELSE call.endpoint
            inbound == IF k <= n THEN Befores(k)
                       ELSE Befores(n) \o << <<"endpoint", call.endpoint>> >>
            full == IF j = 0 THEN inbound
                    ELSE inbound \o << <<"caught", Mws[j]>> >> \o Afters(j - 1)
        IN  /\ IsPrefix(trace, full)
            /\ (ret # None /\ ret.kind = "raise") =>
                  /\ ret.exc = Exc("RuntimeError", source)
                  /\ Len(stack) >= j
                  /\ Len(stack) < k
                  /\ \A i \in 1..Len(stack) :
                        stack[i].pc = "awaiting" /\ stack[i].handler.mw = Mws[i]
                  /\ trace = inbound
            /\ outcome # None =>
                  /\ trace = full
                  /\ IF j = 0
                     THEN outcome = Raised(Exc("RuntimeError", source))
                     ELSE /\ outcome.kind = "return"
                          /\ outcome.response.status_code = 500
                          /\ outcome.response.via = ViaOf(j - 1)

\* the endpoint's exception has passed B and is at A's pending call of next
C5_Witness ==
    /\ call # None
    /\ call.middlewares = <<"middleware1", "middleware2">>
    /\ call.endpoint = "fail_handler"
    /\ ret # None
    /\ ret.kind = "raise"
    /\ ret.exc = Exc("RuntimeError", "fail_handler")
    /\ Len(stack) = 1
    /\ trace = << <<"before", "middleware1">>, <<"before", "middleware2">>,
                  <<"endpoint", "fail_handler">> >>

(***************************************************************************)
(* C11: a registered route with template /users/{id:int} matches           *)
(* /users/123 under every method it accepts and yields id as the integer   *)
(* 123, and it matches /users/12a under none of them; find_route and the   *)
(* handler called for that route see the integer.                          *)
(***************************************************************************)
C11_IntParameter ==
    /\ \A r \in Routes :
          r.path = T_users_int =>
              \A m \in r.methods :
                  /\ matches(r, P_users_123, m) =
                         [matches |-> TRUE, path_params |-> << <<N_id, 123>> >>]
                  /\ matches(r, P_users_12a, m) = NoRouteMatch
    /\ (last.op = "find_route" /\ last.result # None
            /\ last.result.route.path = T_users_int) =>
          /\ last.path = P_users_123
          /\ last.result.path_params = << <<N_id, 123>> >>
    /\ last.op = "handle_request" =>
          \A i \in 1..Len(last.called) :
              last.called[i].handler = "get_user" =>
                  /\ last.before.path = P_users_123
                  /\ DictGet(last.called[i].kwargs, N_id) = 123
                  /\ last.request.path_params = << <<N_id, 123>> >>

\* get_user called with the integer for /users/123
C11_Witness ==
    /\ last.op = "handle_request"
    /\ last.before.path = P_users_123
    /\ Len(last.called) = 1
    /\ last.called[1].handler = "get_user"
    /\ DictGet(last.called[1].kwargs, N_id) = 123

(***************************************************************************)
(* C12: a registered route with template /files/{p:multipath} matches      *)
(* /files/, /files/a and /files/a/b/c under every method it accepts, with  *)
(* p the empty string, "a" and "a/b/c"; the raw path is tried before the   *)
(* normalized one, so /files/ is recognized and /files/a/ keeps its        *)
(* trailing slash in p; find_route returns these parameters.               *)
(***************************************************************************)
\* the text after /files/ in a request path
AfterFiles(path) == SubSeq(path, Len(P_files_empty) + 1, Len(path))

FilesPaths == {P_files_empty, P_files_a, P_files_a_slash, P_files_abc}

C12_Multipath ==
    /\ \A r \in Routes :
          r.path = T_files =>
              \A m \in r.methods :
                  /\ matches(r, P_files_empty, m) =
                         [matches |-> TRUE, path_params |-> << <<N_p, << >> >> >>]
                  /\ matches(r, P_files_a, m) =
                         [matches |-> TRUE, path_params |-> << <<N_p, <<"a">> >> >>]
                  /\ matches(r, P_files_abc, m) =
                         [matches |-> TRUE,
                          path_params |-> << <<N_p, <<"a", "/", "b", "/", "c">> >> >>]
                  /\ matches(r, P_files_a_slash, m) =
                         [matches |-> TRUE, path_params |-> << <<N_p, <<"a", "/">> >> >>]
    /\ (last.op = "find_route" /\ last.path \in FilesPaths
            /\ \E r \in Routes : r.path = T_files /\ last.method \in r.methods) =>
          /\ last.result # None
          /\ last.result.route.path = T_files
          /\ last.result.path_params = << <<N_p, AfterFiles(last.path)>> >>

\* /files/ found with p the empty string
C12_Witness ==
    /\ last.op = "find_route"
    /\ last.path = P_files_empty
    /\ last.result # None
    /\ last.result.route.path = T_files
    /\ last.result.path_params = << <<N_p, << >> >> >>

C14_MutationAfterBuildRejected ==
    built # None => chain.middlewares = built.middlewares

(***************************************************************************)
(* C15: a build call leaves the chain's list of middleware and count()     *)
(* as they were, and can be repeated; and a call of the callable a build   *)
(* returned enters the middleware that were registered at that build, in   *)
(* registration order, up to the first that does not call next, whatever   *)
(* has been added to or cleared from the chain since.                      *)
(***************************************************************************)
\* the middleware the run in progress has entered so far
Entered ==
    LET befores == SelectSeq(trace, LAMBDA e : e[1] = "before")
    IN  [i \in 1..Len(befores) |-> befores[i][2]]

RunFollowsBuild ==
    call # None =>
        /\ IsPrefix(Entered, Mws)
        /\ Len(Entered) <= FirstStop
        /\ outcome # None =>
              Len(Entered) = (IF FirstStop > Len(Mws) THEN Len(Mws) ELSE FirstStop)

C15_BuildIsPure ==
    [][/\ built' # built =>
              /\ chain' = chain
              /\ chain_count(chain') = chain_count(chain)
       /\ RunFollowsBuild']_vars

\* a finished run of [middleware1, middleware2] on a chain that has since
\* been cleared and built again
C15_Witness ==
    /\ call # None
    /\ outcome # None
    /\ Mws = <<"middleware1", "middleware2">>
    /\ Entered = Mws
    /\ chain.middlewares = << >>
    /\ built # call

(***************************************************************************)
(* C16: build on a chain whose list is empty returns the endpoint it was   *)
(* given, not a callable around it, also when middleware were added and    *)
(* the chain was cleared before the build.                                 *)
(***************************************************************************)
C16_EmptyChainReturnsEndpoint ==
    (built # None /\ built.middlewares = << >>) =>
        built.handler = Endpoint(built.endpoint)

\* built after add and clear
C16_Witness ==
    /\ built # None
    /\ built.adds > 0
    /\ built.middlewares = << >>
    /\ built.handler = Endpoint(built.endpoint)

(***************************************************************************)
(* Vocabulary of the binding properties: the dispatched request is         *)
(* last.before, Found is what find_route gives for it, and the parameters  *)
(* of the handler are numbered as in its signature.                        *)
(***************************************************************************)
Found == find_route(router, last.before.path, last.before.method)

Sig == Signature(Found.route.handler)

\* neither Request-injected nor a resolved path parameter, and annotated
QueryBound ==
    {i \in 1..Len(Sig) :
        /\ Sig[i].annotation \notin {"Request", "empty"}
        /\ Sig[i].name \notin DictKeys(Found.path_params)}

Present(i) == Sig[i].name \in DictKeys(last.before.query_params)

\* the texts int() accepts among those of the query strings of the model;
\* every text is a str
Coercible(i) ==
    LET v == DictGet(last.before.query_params, Sig[i].name)
    IN  Sig[i].annotation \in {"int", "Optional[int]"} => (Len(v) > 0 /\ AllIn(v, Digits))

Optional(i) == Sig[i].annotation \in {"Optional[str]", "Optional[int]"}

BadValue(i) == i \in QueryBound /\ Present(i) /\ ~Coercible(i)

MissingRequired(i) ==
    i \in QueryBound /\ ~Present(i) /\ ~Optional(i) /\ ~Sig[i].has_default

Failures == {i \in 1..Len(Sig) : BadValue(i) \/ MissingRequired(i)}

IsFirstFailure(i) == i \in Failures /\ \A j \in Failures : i <= j

(***************************************************************************)
(* C17: when the query string has a value for an annotated parameter that  *)
(* is bound from the query and the value does not convert to the           *)
(* annotated type, handle_request raises, the handler is not called, and   *)
(* the error (for the first parameter that fails) is a TypeError naming    *)
(* the parameter; a default value of the parameter does not change this.   *)
(***************************************************************************)
C17_QueryCoercionFailure ==
    (last.op = "handle_request" /\ Found # None) =>
        \A i \in 1..Len(Sig) :
            BadValue(i) =>
                /\ ~last.ok
                /\ last.called = << >>
                /\ IsFirstFailure(i) =>
                      /\ last.exc.type = "TypeError"
                      /\ last.exc.msg =
                            <<"Invalid type for query parameter '", Sig[i].name, "'.">>

\* /search?limit=abc with limit: int = 10
C17_Witness ==
    /\ last.op = "handle_request"
    /\ last.before.path = T_search
    /\ last.before.query_params = Q_limit_abc
    /\ Found # None
    /\ Found.route.handler = "search"
    /\ ~last.ok
    /\ last.exc.type = "TypeError"
    /\ last.exc.msg[2] = N_limit
    /\ last.called = << >>

(***************************************************************************)
(* C18: for an annotated parameter bound from the query whose name is not  *)
(* in the query string: if it is Optional or has a default, it is not      *)
(* passed and (nothing else failing) the handler is called and uses its    *)
(* default; if it is required, handle_request raises a ValueError naming   *)
(* it (when it is the first to fail) and the handler is not called.        *)
(***************************************************************************)
C18_AbsentQueryParameter ==
    (last.op = "handle_request" /\ Found # None) =>
        \A i \in QueryBound :
            ~Present(i) =>
                IF Optional(i) \/ Sig[i].has_default
                THEN Failures = {} =>
                        /\ last.ok
                        /\ Len(last.called) = 1
                        /\ Sig[i].name \notin DictKeys(last.called[1].kwargs)
                        /\ Sig[i].has_default =>
                              \E k \in 1..Len(last.response.content[2]) :
                                  last.response.content[2][k] =
                                      <<Sig[i].name,
                                        DictGet(Defaults(Found.route.handler), Sig[i].name)>>
                ELSE /\ ~last.ok
                     /\ last.called = << >>
                     /\ IsFirstFailure(i) =>
                           /\ last.exc.type = "ValueError"
                           /\ last.exc.msg =
                                 <<"Required query parameter '", Sig[i].name, "' is missing.">>

(***************************************************************************)
(* C19: the handler is called with the Request for each Request-annotated  *)
(* parameter, whatever the query string holds under that name; with the    *)
(* converted path value for each other parameter that is a resolved path   *)
(* parameter, also when the query string has a key of that name; and a     *)
(* handler whose parameters are all of these two kinds is always called.   *)
(***************************************************************************)
C19_BindingPrecedence ==
    (last.op = "handle_request" /\ Found # None) =>
        /\ \A c \in 1..Len(last.called) :
              \A i \in 1..Len(Sig) :
                  IF Sig[i].annotation = "Request"
                  THEN /\ DictHas(last.called[c].kwargs, Sig[i].name)
                       /\ DictGet(last.called[c].kwargs, Sig[i].name) = "<Request>"
                  ELSE Sig[i].name \in DictKeys(Found.path_params) =>
                          /\ DictHas(last.called[c].kwargs, Sig[i].name)
                          /\ DictGet(last.called[c].kwargs, Sig[i].name) =
                                 DictGet(Found.path_params, Sig[i].name)
        /\ (\A i \in 1..Len(Sig) :
                \/ Sig[i].annotation = "Request"
                \/ Sig[i].name \in DictKeys(Found.path_params)) =>
              last.ok /\ Len(last.called) = 1

\* /users/123?id=99&request=x: get_user gets the Request and id = 123
C19_Witness ==
    /\ last.op = "handle_request"
    /\ last.before.path = P_users_123
    /\ last.before.query_params = Q_id_request
    /\ Len(last.called) = 1
    /\ last.called[1].handler = "get_user"
    /\ DictGet(last.called[1].kwargs, N_id) = 123
    /\ DictGet(last.called[1].kwargs, N_request) = "<Request>"

\* method names a request may carry: the seven verbs, one that is not among
\* them, and lower-case spellings
ProbeMethods ==
    {"GET", "POST", "PUT", "DELETE", "PATCH", "HEAD", "OPTIONS", "TRACE", "get", "delete"}

(***************************************************************************)
(* C20: every Route of the router (and the one add_route has just made)    *)
(* has a non-empty set of methods, all among GET, POST, PUT, DELETE,       *)
(* PATCH, HEAD and OPTIONS; add_route with a method name outside these     *)
(* raises a ValueError that lists exactly the invalid names and registers  *)
(* nothing; and matches answers (False, {}) on every path for a method     *)
(* that is not in the route's set.                                         *)
(***************************************************************************)
C20_RouteMethods ==
    LET Verbs == {"GET", "POST", "PUT", "DELETE", "PATCH", "HEAD", "OPTIONS"}
        WellFormed(route) == route.methods # {} /\ route.methods \subseteq Verbs
    IN  /\ \A i \in 1..Len(router.routes) : WellFormed(router.routes[i])
        /\ (last.op = "add_route" /\ last.ok) => WellFormed(last.route)
        /\ (last.op = "add_route" /\ last.methods \ Verbs # {}) =>
              /\ ~last.ok
              /\ last.exc.type = "ValueError"
              /\ last.exc.msg = <<"Invalid HTTP methods: ", last.methods \ Verbs>>
              /\ router = last.before
        /\ \A i \in 1..Len(router.routes) :
              \A method \in ProbeMethods :
                  upper(method) \notin router.routes[i].methods =>
                      \A path \in RequestPaths :
                          matches(router.routes[i], path, method) =
                              [matches |-> FALSE, path_params |-> << >>]

\* a route registered without methods accepts GET only, and add_route with
\* {"GET", "TRACE"} has just been refused
C20_Witness ==
    /\ \E i \in 1..Len(router.routes) : router.routes[i].methods = {"GET"}
    /\ \E i \in 1..Len(router.routes) :
          \E path \in RequestPaths :
              /\ matches(router.routes[i], path, "GET").matches
              /\ ~matches(router.routes[i], path, "DELETE").matches
    /\ last.op = "add_route"
    /\ last.methods = {"GET", "TRACE"}
    /\ ~last.ok
    /\ last.exc.msg[2] = {"TRACE"}

(***************************************************************************)
(* Vocabulary of the template properties: what is wrong with a template,   *)
(* read off its characters.                                                *)
(***************************************************************************)
HasGlob(t) == \E i \in 1..Len(t) : t[i] = "*"

UnterminatedAt(t, i) == t[i] = "{" /\ \A j \in (i + 1)..Len(t) : t[j] # "}"

KnownTypeNames ==
    { <<"s", "t", "r">>, <<"i", "n", "t">>, <<"f", "l", "o", "a", "t">>,
      <<"u", "u", "i", "d">>, <<"m", "u", "l", "t", "i", "p", "a", "t", "h">> }

\* the type names written after the first ':' of a {...} of the template
DeclaredTypes(t) ==
    { SubSeq(t, c + 1, j - 1) :
        <<c, j>> \in { x \in (1..Len(t)) \X (1..Len(t)) :
                        /\ x[1] < x[2]
                        /\ t[x[1]] = ":"
                        /\ t[x[2]] = "}"
                        /\ \E i \in 1..(x[1] - 1) :
                              /\ t[i] = "{"
                              /\ \A k \in (i + 1)..(x[1] - 1) : t[k] \notin {":", "}", "{"}
                        /\ \A k \in (x[1] + 1)..(x[2] - 1) : t[k] # "}" } }

Malformed(t) ==
    \/ HasGlob(t)
    \/ \E i \in 1..Len(t) : UnterminatedAt(t, i)
    \/ DeclaredTypes(t) \ KnownTypeNames # {}

Contains(text, t) ==
    \E k \in 0..(Len(text) - Len(t)) : SubSeq(text, k + 1, k + Len(t)) = t

\* the parts of an error message that are text taken from the call (the
\* position in an "Unclosed parameter" message is a number)
QuotedText(msg) ==
    IF msg[1] = "Unsupported parameter type: " THEN {msg[2]} ELSE {}

\* add_route has just been called with a malformed template
MalformedCall == last.op = "add_route" /\ Malformed(last.path)

(***************************************************************************)
(* C21 as stated: add_route with a template that has an unterminated '{',  *)
(* an unknown type name or a '*' raises, registers nothing, and the error  *)
(* message contains the template.                                          *)
(***************************************************************************)
C21_ErrorNamesTemplate ==
    MalformedCall =>
        /\ ~last.ok
        /\ last.route = None
        /\ router = last.before
        /\ \E text \in QuotedText(last.exc.msg) : Contains(text, last.path)

(***************************************************************************)
(* C21 amended: add_route with such a template raises a ValueError and     *)
(* registers nothing; the message is the fixed text on wildcards when the  *)
(* template has a '*', and otherwise gives the 0-based position of a '{'   *)
(* that is not closed or a type name of the template that is unknown.      *)
(***************************************************************************)
C21_MalformedTemplateRejected ==
    MalformedCall =>
        LET full == last.before.prefix \o last.path
            msg == last.exc.msg
        IN  /\ ~last.ok
            /\ last.route = None
            /\ router = last.before
            /\ last.exc.type = "ValueError"
            /\ IF HasGlob(full)
               THEN msg = <<"Wildcard patterns (*/**) are no longer supported. Use multipath parameters instead: {name:multipath}">>
               ELSE \/ /\ msg[1] = "Unclosed parameter at position "
                       /\ UnterminatedAt(full, msg[2] + 1)
                    \/ /\ msg[1] = "Unsupported parameter type: "
                       /\ msg[2] \in DeclaredTypes(full) \ KnownTypeNames

\* /api/{id:bool} has just been refused on a router that has a route
C21_Witness ==
    /\ MalformedCall
    /\ last.path = T_unknown
    /\ ~last.ok
    /\ last.exc.msg[2] = <<"b", "o", "o", "l">>
    /\ router.routes # << >>
    /\ router = last.before

(***************************************************************************)
(* Vocabulary of the include_router properties: last.before is the target  *)
(* before the call, last.router the included router as it was handed in.   *)
(***************************************************************************)
Included == last.op = "include_router" /\ last.ok

CombinedPrefix == last.before.prefix \o rstrip(last.prefix, Slash)

\* the routes of the target that were made by the call, in the order made
NewRoutes ==
    LET base == Len(last.before.route_definition_order)
    IN  [k \in 1..Len(last.router.routes) |->
            CHOOSE r \in {router.routes[i] : i \in 1..Len(router.routes)} :
                r.oid = base + k - 1]

\* one new route per route of the included router, same handler, methods
\* and priority; the routes the target had are kept; the included router is
\* as it was
IncludeKeepsAllButPath ==
    /\ Len(router.routes) = Len(last.before.routes) + Len(last.router.routes)
    /\ \A j \in 1..Len(last.before.routes) :
          \E i \in 1..Len(router.routes) : router.routes[i] = last.before.routes[j]
    /\ \A k \in 1..Len(last.router.routes) :
          /\ \E i \in 1..Len(router.routes) :
                router.routes[i].oid = Len(last.before.route_definition_order) + k - 1
          /\ NewRoutes[k].handler = last.router.routes[k].handler
          /\ NewRoutes[k].methods = last.router.routes[k].methods
          /\ NewRoutes[k].priority = last.router.routes[k].priority
    /\ sub = last.router

SortedBySpecificity(routes) ==
    \A i, j \in 1..Len(routes) : i < j => MoreSpecific(routes[i], routes[j])

\* add_route or include_router has just returned normally
Registered == last.op \in {"add_route", "include_router"} /\ last.ok

C27_FailedRegistrationLeavesRoutes ==
    (last.op \in {"add_route", "include_router"} /\ ~last.ok) =>
        /\ router.routes = last.before.routes
        /\ SortedBySpecificity(router.routes)

(***************************************************************************)
(* Vocabulary of the concurrency property.  The routes served are          *)
(* /users/{id:int} (get_user) and /users/{name} (get_user_by_name), so the *)
(* path parameter of a request is the text after the last '/', as a        *)
(* number for get_user.                                                    *)
(***************************************************************************)
LastSegment(path) ==
    LET slash == CHOOSE i \in 1..Len(path) :
                     path[i] = "/" /\ \A j \in (i + 1)..Len(path) : path[j] # "/"
    IN  SubSeq(path, slash + 1, Len(path))

\* the task got the parameter of its own path: in the arguments of the
\* handler call, on its request, and in the response once it has one
OwnParameters(task) ==
    task.called # << >> =>
        LET h == task.called[1].handler
            own == LastSegment(task.request.path)
        IN  /\ h = "get_user" =>
                  /\ AllIn(own, Digits)
                  /\ task.called[1].kwargs =
                        << <<N_request, "<Request>">>, <<N_id, DecimalValue(own)>> >>
                  /\ task.request.path_params = << <<N_id, DecimalValue(own)>> >>
            /\ h = "get_user_by_name" =>
                  /\ task.called[1].kwargs = << <<N_request, "<Request>">>, <<N_name, own>> >>
                  /\ task.request.path_params = << <<N_name, own>> >>
            /\ task.pc = "done" => task.response.content = <<h, task.called[1].kwargs>>

(***************************************************************************)
(* C23: however the steps of the requests in flight interleave, each       *)
(* handler is called with the path parameters of its own request's path    *)
(* (and answers with them), and a step changes the path_params of no       *)
(* request other than the one whose dispatch it is: every other task is    *)
(* left exactly as it was.                                                 *)
(***************************************************************************)
C23_PathParamsPerRequest ==
    [][ /\ \A i \in 1..Len(inflight') : OwnParameters(inflight'[i])
        /\ \A j \in 1..Len(inflight) :
              j <= Len(inflight') =>
                  \/ inflight'[j] = inflight[j]
                  \/ /\ inflight[j].pc # "done"
                     /\ inflight'[j].pc # inflight[j].pc
                     /\ inflight'[j].request.path_params # inflight[j].request.path_params
                            => inflight[j].pc = "accepted"
                     /\ \A k \in 1..Len(inflight) : k # j => inflight'[k] = inflight[k]
      ]_vars

\* two requests are both inside their handlers, each with its own id
C23_Witness ==
    /\ Len(inflight) = 2
    /\ inflight[1].pc = "awaiting"
    /\ inflight[2].pc = "awaiting"
    /\ inflight[1].called[1].handler = "get_user"
    /\ inflight[2].called[1].handler = "get_user"
    /\ DictGet(inflight[1].called[1].kwargs, N_id) = 123
    /\ DictGet(inflight[2].called[1].kwargs, N_id) = 7
    /\ inflight[1].request.path_params # inflight[2].request.path_params

\* the segments of a request path as the router counts them: one more than
\* the '/' that follow its leading '/'s
SlashCount(path) ==
    LET lead == CHOOSE n \in 0..Len(path) :
                    /\ \A i \in 1..n : path[i] = "/"
                    /\ n < Len(path) => path[n + 1] # "/"
    IN  IF lead = Len(path) THEN 1
        ELSE 1 + Cardinality({i \in (lead + 1)..Len(path) : path[i] = "/"})

\* the path without its trailing '/'s, "/" if nothing is left
WithoutTrailingSlashes(path) ==
    LET kept == CHOOSE n \in 0..Len(path) :
                    /\ \A i \in (n + 1)..Len(path) : path[i] = "/"
                    /\ n > 0 => path[n] # "/"
    IN  IF kept = 0 THEN <<"/">> ELSE SubSeq(path, 1, kept)

HasMultipath(route) ==
    \E i \in 1..Len(route.param_types) : route.param_types[i][2] = "multipath"

(***************************************************************************)
(* C25: for the route add_route has just made and every request path and   *)
(* method: if the route has no multipath parameter, matches gives the same *)
(* answer, with the same parameters, for the path and for the path with a  *)
(* '/' added at its end, and matches no path whose segment count after     *)
(* removing trailing slashes differs from the segment count of the         *)
(* template; if the route has a multipath parameter, it matches no path    *)
(* that has fewer segments than the template.                              *)
(***************************************************************************)
C25_TrailingSlashAndSegments ==
    (last.op = "add_route" /\ last.ok) =>
        \A path \in RequestPaths, method \in last.route.methods :
            IF HasMultipath(last.route)
            THEN SlashCount(path) < SlashCount(last.route.path) =>
                    ~matches(last.route, path, method).matches
            ELSE /\ matches(last.route, path \o <<"/">>, method) =
                       matches(last.route, path, method)
                 /\ matches(last.route, path, method).matches =>
                       SlashCount(WithoutTrailingSlashes(path)) = SlashCount(last.route.path)

\* /api/{id:int} answers id = 12 for /api/12 and for /api/12/
C25_Witness ==
    /\ last.op = "add_route"
    /\ last.ok
    /\ last.path = T_id_int
    /\ \E method \in last.route.methods :
          /\ matches(last.route, <<"/", "a", "p", "i", "/", "1", "2">>, method) =
                [matches |-> TRUE, path_params |-> << <<N_id, 12>> >>]
          /\ matches(last.route, <<"/", "a", "p", "i", "/", "1", "2", "/">>, method) =
                [matches |-> TRUE, path_params |-> << <<N_id, 12>> >>]
          /\ ~matches(last.route, <<"/", "a", "p", "i", "/", "1", "2", "/", "x">>,
                      method).matches

\* the routes that match the path and the method of the request handled
Accepting == Matching(last.before.path, last.before.method)

\* the routes that match its path under some method but not under its own
Refusing == MatchingPath(last.before.path) \ Accepting

MostSpecific(routes) == CHOOSE r \in routes : \A o \in routes \ {r} : MoreSpecific(r, o)

(***************************************************************************)
(* C26: when some route matches the path and the method of the request,    *)
(* handle_request does not answer 405 or 404: it resolves the path         *)
(* parameters of, and calls the handler of, the most specific of the       *)
(* routes that match both, also when a route that matches the path only    *)
(* ranks above it; and it answers 405 only when no route matches both.     *)
(***************************************************************************)
C26_NoShadowingByMethod ==
    last.op = "handle_request" =>
        /\ Accepting # {} =>
              LET best == MostSpecific(Accepting)
              IN  /\ last.request.path_params =
                        matches(best, last.before.path, last.before.method).path_params
                  /\ last.ok =>
                        /\ last.response.status_code = 200
                        /\ Len(last.called) = 1
                        /\ last.called[1].handler = best.handler
                  /\ ~last.ok => last.exc.type \in {"TypeError", "ValueError"}
        /\ (last.ok /\ last.response.status_code = 405) => Accepting = {}

\* POST /api/health goes to general_api of /api/{name} (GET, POST) although
\* the GET-only /api/health ranks above it
C26_Witness ==
    /\ last.op = "handle_request"
    /\ last.before.method = "POST"
    /\ last.before.path = T_health
    /\ Accepting # {}
    /\ \E s \in Refusing :
          /\ s.path = T_health
          /\ s.methods = {"GET"}
          /\ MoreSpecific(s, MostSpecific(Accepting))
    /\ last.ok
    /\ last.response.status_code = 200
    /\ last.called[1].handler = "general_api"
    /\ DictGet(last.called[1].kwargs, N_name) = <<"h", "e", "a", "l", "t", "h">>

(***************************************************************************)
(* C28: when add_middleware is called after the startup handler has built  *)
(* the chain, it raises RuntimeError and the chain is what it was before   *)
(* the call: same count, same middlewares, so that building it again       *)
(* gives what building it before the call gave.                            *)
(***************************************************************************)
C28_LateMiddlewareRejected ==
    (last.op = "add_middleware" /\ last.built) =>
        /\ ~last.ok
        /\ last.exc.type = "RuntimeError"
        /\ chain_count(chain) = chain_count(last.before)
        /\ build(chain, Endpoint("handle_request")) =
              build(last.before, Endpoint("handle_request"))

\* the lifespan message the step sends, and the handlers of its event
Sending == Len(app'.sent) > Len(app.sent)

Event == app.pc

EventHandlers ==
    IF Event = "startup" THEN app._startup_handlers ELSE app._shutdown_handlers

BuiltIn == IF Event = "startup" THEN "_build_middleware_chain" ELSE "_cleanup_all_requests"

FailingAt == {k \in 1..Len(EventHandlers) : HandlerRaises(EventHandlers[k]) # ""}

(***************************************************************************)
(* C29: a step that sends a lifespan message sends the only message of the *)
(* connection, after the handlers of the event received have run in the    *)
(* order of their list, the built-in one first: when no handler of the     *)
(* list raises, all have run and the message is '<event>.complete';        *)
(* otherwise the handlers up to the first that raises have run, none       *)
(* after it, and the message is '<event>.failed' with the text of its      *)
(* exception.                                                              *)
(***************************************************************************)
C29_LifespanHandlersInOrder ==
    [][ Sending =>
          /\ app.sent = << >>
          /\ Len(app'.sent) = 1
          /\ app'.pc = "returned"
          /\ Event = IF app.posted[1] = "lifespan.startup" THEN "startup" ELSE "shutdown"
          /\ Event \in {"startup", "shutdown"}
          /\ EventHandlers[1] = BuiltIn
          /\ IF FailingAt = {}
             THEN /\ app'.ran = EventHandlers
                  /\ app'.sent[1] = <<"lifespan." \o Event \o ".complete">>
             ELSE LET first == CHOOSE k \in FailingAt : \A j \in FailingAt : k <= j
                  IN  /\ app'.ran = SubSeq(EventHandlers, 1, first)
                      /\ app'.sent[1] = <<"lifespan." \o Event \o ".failed",
                                          HandlerRaises(EventHandlers[first])>>
      ]_vars

\* startup.failed was sent for the first of two failing handlers, which
\* ran after the built-in handler; the second did not run
C29_Witness ==
    /\ app._startup_handlers =
          <<"_build_middleware_chain", "failing_late", "failing_handler">>
    /\ app.ran = <<"_build_middleware_chain", "failing_late">>
    /\ app.sent = << <<"lifespan.startup.failed", "Shutdown failed">> >>
    /\ app.pc = "returned"
    /\ app._middleware_built

(***************************************************************************)
(* C30: on each lifespan connection, once lifespan.startup was answered    *)
(* with lifespan.startup.complete and the server has put lifespan.shutdown *)
(* on the connection, the application eventually receives it and sends    *)
(* the answer of the shutdown handlers (lifespan.shutdown.complete, or     *)
(* .failed when one of them raises).                                       *)
(***************************************************************************)
C30_ShutdownAfterStartup ==
    \A c \in 1..MaxConnections :
        (/\ app.conn = c
         /\ app.sent = << <<"lifespan.startup.complete">> >>
         /\ app.posted = <<"lifespan.startup", "lifespan.shutdown">>)
        ~> (/\ app.conn = c
            /\ app.inbox = << >>
            /\ \E k \in 1..Len(app.sent) :
                  app.sent[k][1] \in {"lifespan.shutdown.complete", "lifespan.shutdown.failed"})

====
